---- MODULE Spec2Model ----
(***************************************************************************)
(* Model of the multi-agent orchestration engine of the Banco Agil         *)
(* assistant (src/src/graph.py) driven by the CLI loop (src/main.py) or by  *)
(* the chat UI (src/app.py).                                               *)
(*                                                                         *)
(* Texts (tool results, message contents) are sequences of parts, the      *)
(* pieces that result_str.split(", ") yields; a part is a sequence of      *)
(* tokens.  The first token of the first part is the status prefix that    *)
(* str.startswith tests.  Accents are dropped from the literals.           *)
(* A Python dict is a function over its keys; the empty dict is <<>>.      *)
(*                                                                         *)
(* tool_node is modelled one loop iteration at a time (ToolCallStep), then *)
(* its return and the merge of its update (ToolReturn).  llm_raised and    *)
(* tool_raised record what the model backend and the tools did, so that    *)
(* properties about their failures can name them.                          *)
(***************************************************************************)
EXTENDS Integers, Sequences, FiniteSets, TLC

\* Bounds of the exploration.
MaxMsgs  == 5   \* messages of one conversation
MaxBatch == 2   \* tool-call requests in one assistant message
MaxDeepMsgs == 9   \* messages of one conversation in the long exploration
MaxTurnRequests == 13  \* answers with requests of the backend in one call
MaxDicts == 3   \* state dicts made while two conversations run side by side
MaxSessionMsgs == 3   \* messages of each of these two conversations
\* tool_node on its own: the number of requests of the last message
MaxRulesBatch == 2
\* tool_node with the real request_limit_increase: the number of requests
MaxCreditBatch == 2
\* records of the request log up to which the model backend is taken to ask
\* for limit increases
MaxLogRows == 2

VARIABLES
    messages,       \* AgentState.messages
    authenticated,  \* AgentState.authenticated
    client_data,    \* AgentState.client_data
    auth_attempts,  \* AgentState.auth_attempts
    current_agent,  \* AgentState.current_agent
    should_end,     \* AgentState.should_end
    pc,             \* where the run is: "init", "start", "agent", "tools",
                    \* "returned" (graph.invoke returned), "raised" (it raised),
                    \* "caught" (the caller went on after it raised), "exited"
    node,           \* the agent node the graph routed to
    idx,            \* tool_node: position of the next tool call of the batch
    tool_messages,  \* tool_node: local tool_messages
    state_updates,  \* tool_node: local state_updates
    caller,         \* the front end that drives the graph: "cli" (main.py) or "app" (app.py)
    llm_ok,         \* get_llm() finds its credentials in the environment
    llm_raised,     \* the last llm_with_tools.invoke raised
    tool_raised,    \* tool_node: for each call processed, whether tool.invoke raised
    heap,           \* the dict objects made by _get_initial_state, by address
    session,        \* for each conversation, the address of its state dict (0: none)
    llm_input,      \* _agent_node: the history last passed to llm_with_tools.invoke
    fn_in,          \* a function called on its own: its name and arguments
    fn_out,         \* the text that call returned (empty before the call)
    registry,       \* the module-level dict TOOL_MAP: for each name registered,
                    \* the tool ("tool") or the mock put in its place ("fake_tool")
    clientes_csv,   \* data/clientes.csv: whether it can be read, and its rows
    score_limite_csv,  \* data/score_limite.csv: the same
    solicitacoes_csv,  \* data/solicitacoes_aumento_limite.csv: its rows
    inflight        \* for each conversation, the request_limit_increase call
                    \* it is in the middle of: where it is, and its locals

vars == <<messages, authenticated, client_data, auth_attempts, current_agent,
          should_end, pc, node, idx, tool_messages, state_updates, caller,
          llm_ok, llm_raised, tool_raised, heap, session, llm_input, fn_in,
          fn_out, registry, clientes_csv, score_limite_csv, solicitacoes_csv,
          inflight>>

-----------------------------------------------------------------------------
\* Python values

None == [py_none |-> TRUE]

DictSet(d, k, v) == [x \in (DOMAIN d) \cup {k} |-> IF x = k THEN v ELSE d[x]]

DictGet(d, k, default) == IF k \in DOMAIN d THEN d[k] ELSE default

\* bool(x) of an Optional[dict]
Truthy(d) == d # None /\ DOMAIN d # {}

\* str.startswith on a text
StartsWith(text, prefix) ==
    /\ Len(text) > 0
    /\ Len(text[1]) > 0
    /\ text[1][1] = prefix

\* marker in text
Contains(text, marker) ==
    \E i \in 1..Len(text) : \E j \in 1..Len(text[i]) : text[i][j] = marker

\* position of the first token of part equal to tok, 0 when absent
RECURSIVE IndexOf(_, _, _)
IndexOf(part, tok, from) ==
    IF from > Len(part) THEN 0
    ELSE IF part[from] = tok THEN from
    ELSE IndexOf(part, tok, from + 1)

\* Numbers and their texts.  An amount (a Python float) is held as a number
\* of thousandths of a real: 5000.004 is 5000004.  A field of a file, and a
\* number in a text, is the text itself.

\* f"{x:.2f}": x rounded to the cent (x is never half-way between two cents)
Fmt2f(x) ==
    LET c == (x + 5) \div 10
    IN ToString(c \div 100) \o "." \o ToString((c % 100) \div 10)
           \o ToString(c % 10)

\* the values of new_limit a request carries: the first client's limit, a
\* hair above it, the maximum of the first client's band (which is the
\* second client's limit), an amount above that maximum (within the second
\* client's band)
NewLimits == {5000000, 5000004, 8000000, 10000000}

\* the amounts whose texts the files and the results can hold
FileAmounts ==
    {2000000, 3500000, 5000000, 7000000, 8000000, 12000000, 20000000}
        \cup {((x + 5) \div 10) * 10 : x \in NewLimits}

FloatTable ==
    [s \in {Fmt2f(x) : x \in FileAmounts} |->
        CHOOSE x \in FileAmounts : Fmt2f(x) = s]

\* the integers whose texts the files and the results can hold
FileInts == {0, 399, 400, 549, 550, 649, 650, 749, 750, 780, 800, 849, 850,
             1000, 1500}

IntTable ==
    [s \in {ToString(n) : n \in FileInts} |->
        CHOOSE n \in FileInts : ToString(n) = s]

\* int(s) of a field of a file; -1 stands for the ValueError
IntOfText(s) == IF s \in DOMAIN IntTable THEN IntTable[s] ELSE -1

\* float(s) of a field of a file: a decimal text or an integer text; -1
\* stands for the ValueError
FloatOfText(s) ==
    IF s \in DOMAIN FloatTable THEN FloatTable[s]
    ELSE IF s \in DOMAIN IntTable THEN 1000 * IntTable[s]
    ELSE -1

\* float(s) / int(s) of a number cut out of a result text
ParseFloat(s) == FloatOfText(s)

ParseInt(s) == IntOfText(s)

\* part.split(key)[1].strip() when key is in part: what follows key, "" if nothing
After(part, key) ==
    LET i == IndexOf(part, key, 1)
    IN IF i < Len(part) THEN part[i + 1] ELSE ""

\* part.split(key)[1] when key is in part: the tokens between the first key
\* and the next one (or the end)
Between(part, key) ==
    LET i == IndexOf(part, key, 1)
        j == IndexOf(part, key, i + 1)
    IN SubSeq(part, i + 1, IF j = 0 THEN Len(part) ELSE j - 1)

\* s.rstrip("."): s without its trailing full stops
RECURSIVE RStrip(_)
RStrip(toks) ==
    IF Len(toks) > 0 /\ toks[Len(toks)] = "."
    THEN RStrip(SubSeq(toks, 1, Len(toks) - 1))
    ELSE toks

\* float(v) of an argument value: a number as it is, a string parsed, a
\* TypeError for None (-1 stands for the ValueError and the TypeError)
PyFloat(v) ==
    IF v = None THEN -1
    ELSE IF "num" \in DOMAIN v THEN v.num
    ELSE ParseFloat(v.str)

-----------------------------------------------------------------------------
\* Messages

HumanMessage(content) == [type |-> "human", content |-> content]

AIMessage(content, tool_calls) ==
    [type |-> "ai", content |-> content, tool_calls |-> tool_calls]

ToolMessage(content, tool_call_id, name) ==
    [type |-> "tool", content |-> content, tool_call_id |-> tool_call_id,
     name |-> name]

-----------------------------------------------------------------------------
\* Agents and tools

agent_names == {"triage", "credit", "interview", "exchange"}

\* TRIAGE_TOOLS with the transfer to the interview as well
TRIAGE_TOOLS_with_interview ==
    {"authenticate_client", "end_conversation", "transfer_to_credit",
     "transfer_to_exchange", "transfer_to_interview"}

TRIAGE_TOOLS == {"authenticate_client", "end_conversation",
                 "transfer_to_credit", "transfer_to_exchange"}

CREDIT_TOOLS == {"query_credit_limit", "request_limit_increase",
                 "end_conversation", "transfer_to_interview",
                 "transfer_to_triage"}

\* agents/interview.py: the tools that the conversations of
\* src/tests/interview/test_integration.py request of the interview agent
\* and tool_node then finds in TOOL_MAP
INTERVIEW_TOOLS == {"calculate_credit_score", "update_client_score",
                    "end_conversation", "transfer_to_credit"}

EXCHANGE_TOOLS == {"get_exchange_rate", "end_conversation",
                   "transfer_to_triage"}

AGENT_CONFIG == [a \in agent_names |->
                   CASE a = "triage" -> TRIAGE_TOOLS
                     [] a = "credit" -> CREDIT_TOOLS
                     [] a = "interview" -> INTERVIEW_TOOLS
                     [] a = "exchange" -> EXCHANGE_TOOLS]

\* the names registered in TOOL_MAP
TOOL_MAP == UNION {AGENT_CONFIG[a] : a \in agent_names}

\* TRANSFER_MAP with the Portuguese role names of the comment in state.py
TRANSFER_MAP_pt == [t \in {"transfer_to_credit", "transfer_to_exchange",
                           "transfer_to_interview", "transfer_to_triage"} |->
                      CASE t = "transfer_to_credit" -> "credito"
                        [] t = "transfer_to_exchange" -> "cambio"
                        [] t = "transfer_to_interview" -> "entrevista"
                        [] t = "transfer_to_triage" -> "triagem"]

\* TRANSFER_MAP with the targets of the exchange and interview transfers
\* taken one for the other
TRANSFER_MAP_swapped == [t \in {"transfer_to_credit", "transfer_to_exchange",
                                "transfer_to_interview", "transfer_to_triage"} |->
                           CASE t = "transfer_to_credit" -> "credit"
                             [] t = "transfer_to_exchange" -> "interview"
                             [] t = "transfer_to_interview" -> "exchange"
                             [] t = "transfer_to_triage" -> "triage"]

TRANSFER_MAP == [t \in {"transfer_to_credit", "transfer_to_exchange",
                        "transfer_to_interview", "transfer_to_triage"} |->
                   CASE t = "transfer_to_credit" -> "credit"
                     [] t = "transfer_to_exchange" -> "exchange"
                     [] t = "transfer_to_interview" -> "interview"
                     [] t = "transfer_to_triage" -> "triage"]

_get_initial_state ==
    [authenticated |-> FALSE, client_data |-> None, auth_attempts |-> 0,
     current_agent |-> "triage", should_end |-> FALSE]

-----------------------------------------------------------------------------
\* The tools (tool.invoke), each as a function of its arguments and of what
\* it finds outside: the files of data/, the quote service.  A file is
\* [status, rows]: status tells whether it can be read ("ok"), does not
\* exist ("missing") or cannot be decoded ("corrupted"); a row holds the
\* texts of its fields.

ERRO_SISTEMA_DB ==
    << <<"ERRO_SISTEMA", "Nao foi possivel acessar a base de dados de clientes.",
         "Por favor">>, <<"tente novamente mais tarde.">> >>

\* tools/auth.py as a function of its arguments and of the client file.
\* Strings it looks into are sequences of characters (the CPF) or of tokens
\* (the birth date, " " being a blank).

RemoveChar(str, ch) == SelectSeq(str, LAMBDA c : c # ch)

Digits == {"0", "1", "2", "3", "4", "5", "6", "7", "8", "9"}

\* str.isdigit(): not empty and digits only
IsDigit(str) == Len(str) > 0 /\ \A i \in 1..Len(str) : str[i] \in Digits

\* str.strip()
RECURSIVE Strip(_)
Strip(str) ==
    IF Len(str) > 0 /\ str[1] = " " THEN Strip(Tail(str))
    ELSE IF Len(str) > 0 /\ str[Len(str)] = " "
    THEN Strip(SubSeq(str, 1, Len(str) - 1))
    ELSE str

\* the characters of a string written out as one token of a text
RECURSIVE Join(_)
Join(str) == IF str = <<>> THEN "" ELSE str[1] \o Join(Tail(str))

FALHA_CPF ==
    << <<"FALHA", "CPF invalido.",
         "O CPF deve conter exatamente 11 digitos numericos.">> >>

FALHA_NO_MATCH ==
    << <<"FALHA", "CPF ou data de nascimento nao correspondem a nenhum cliente cadastrado.">> >>

ERRO_SISTEMA_UNEXPECTED ==
    << <<"ERRO_SISTEMA", "Ocorreu um erro inesperado ao verificar os dados.",
         "Por favor">>, <<"tente novamente mais tarde.">> >>

\* the f-string of the SUCESSO result, the row's fields as they are in the file
SUCESSO_TEXT(row) ==
    << <<"SUCESSO", "Cliente autenticado.", "Nome:", row.nome>>,
       <<"CPF:", Join(row.cpf)>>,
       <<"Limite de credito:", "R$", row.limite_credito>>,
       <<"Score:", row.score>> >>

\* the loop over csv.DictReader(f): the first row whose CPF and birth date
\* match decides
RECURSIVE _first_match(_, _, _, _)
_first_match(rows, i, cpf_clean, birth_clean) ==
    IF i > Len(rows) THEN FALHA_NO_MATCH
    ELSE LET row == rows[i]
             row_cpf == RemoveChar(RemoveChar(Strip(row.cpf), "."), "-")
             row_birth == Strip(row.data_nascimento)
         IN IF row_cpf = cpf_clean /\ row_birth = birth_clean
            THEN SUCESSO_TEXT(row)
            ELSE _first_match(rows, i + 1, cpf_clean, birth_clean)

\* authenticate_client that leaves the blanks in the CPF
authenticate_client_invoke_blanks(cpf, birth_date, clients_csv) ==
    LET cpf_clean == RemoveChar(RemoveChar(cpf, "."), "-")
        birth_clean == Strip(birth_date)
    IN IF Len(cpf_clean) # 11 \/ ~IsDigit(cpf_clean) THEN FALHA_CPF
       ELSE IF clients_csv.status = "missing" THEN ERRO_SISTEMA_DB
       ELSE IF clients_csv.status = "corrupted" THEN ERRO_SISTEMA_UNEXPECTED
       ELSE _first_match(clients_csv.rows, 1, cpf_clean, birth_clean)

\* authenticate_client.invoke({"cpf": cpf, "birth_date": birth_date}) with
\* CLIENTS_FIXTURE being clients_csv: a file that does not exist
\* (FileNotFoundError), one that cannot be decoded (any other exception) or
\* one with rows.  The CPF is checked before the file is opened.
authenticate_client_invoke(cpf, birth_date, clients_csv) ==
    LET cpf_clean == RemoveChar(RemoveChar(RemoveChar(cpf, "."), "-"), " ")
        birth_clean == Strip(birth_date)
    IN IF Len(cpf_clean) # 11 \/ ~IsDigit(cpf_clean) THEN FALHA_CPF
       ELSE IF clients_csv.status = "missing" THEN ERRO_SISTEMA_DB
       ELSE IF clients_csv.status = "corrupted" THEN ERRO_SISTEMA_UNEXPECTED
       ELSE _first_match(clients_csv.rows, 1, cpf_clean, birth_clean)

end_conversation ==
    { << <<"ENCERRAMENTO", "Atendimento finalizado com sucesso.">> >> }

transfer_to_credit ==
    { << <<"TRANSFERENCIA", "Cliente encaminhado para o servico de credito.">> >> }

transfer_to_exchange ==
    { << <<"TRANSFERENCIA", "Cliente encaminhado para o servico de cambio.">> >> }

transfer_to_interview ==
    { << <<"TRANSFERENCIA", "Cliente encaminhado para a entrevista de credito.">> >> }

transfer_to_triage ==
    { << <<"TRANSFERENCIA", "Cliente encaminhado para a triagem.">> >> }

-----------------------------------------------------------------------------
\* tools/credit.py: request_limit_increase as a function of its arguments and
\* of the three files it works on.

CPF_PLAIN == <<"1", "2", "3", "4", "5", "6", "7", "8", "9", "0", "1">>

CPF_FORMATTED == <<"1", "2", "3", ".", "4", "5", "6", ".", "7", "8", "9", "-",
                   "0", "1">>

CPF_MARIA == <<"9", "8", "7", "6", "5", "4", "3", "2", "1", "0", "0">>

CPF_CARLOS == <<"1", "1", "1", "2", "2", "2", "3", "3", "3", "4", "4">>

CPF_NOBODY == <<"0", "0", "0", "0", "0", "0", "0", "0", "0", "0", "0">>

\* data/clientes.csv as the credit_csvs fixture writes it, with a third client whose score
\* is in no band (test_score_out_of_range_returns_error)
CLIENTS_FIXTURE ==
    [status |-> "ok",
     rows |-> <<[cpf |-> CPF_PLAIN, data_nascimento |-> <<"15/03/1990">>,
                 nome |-> "Joao Silva", limite_credito |-> "5000.00",
                 score |-> "650"],
                [cpf |-> CPF_MARIA, data_nascimento |-> <<"22/07/1985">>,
                 nome |-> "Maria Santos", limite_credito |-> "8000.00",
                 score |-> "780"],
                [cpf |-> CPF_CARLOS, data_nascimento |-> <<"01/01/2000">>,
                 nome |-> "Carlos Souza", limite_credito |-> "5000.00",
                 score |-> "1500"]>>]

\* data/score_limite.csv as the credit_csvs fixture writes it
SCORE_LIMIT_FIXTURE ==
    [status |-> "ok",
     rows |-> <<[score_minimo |-> "0", score_maximo |-> "399",
                 limite_maximo |-> "2000.00"],
                [score_minimo |-> "400", score_maximo |-> "549",
                 limite_maximo |-> "3500.00"],
                [score_minimo |-> "550", score_maximo |-> "649",
                 limite_maximo |-> "5000.00"],
                [score_minimo |-> "650", score_maximo |-> "749",
                 limite_maximo |-> "8000.00"],
                [score_minimo |-> "750", score_maximo |-> "849",
                 limite_maximo |-> "12000.00"],
                [score_minimo |-> "850", score_maximo |-> "1000",
                 limite_maximo |-> "20000.00"]>>]

\* cpf.replace(".", "").replace("-", "").replace(" ", "")
_normalize_cpf(cpf) == RemoveChar(RemoveChar(RemoveChar(cpf, "."), "-"), " ")

\* the position of the first row whose CPF, stripped and without dots and
\* dashes, is cpf_clean; 0 stands for None
RECURSIVE _find_client(_, _, _)
_find_client(rows, cpf_clean, i) ==
    IF i > Len(rows) THEN 0
    ELSE IF RemoveChar(RemoveChar(Strip(rows[i].cpf), "."), "-") = cpf_clean
    THEN i
    ELSE _find_client(rows, cpf_clean, i + 1)

\* the limite_maximo of the first band that holds score; -1 stands for None
RECURSIVE _get_max_limit_for_score(_, _, _)
_get_max_limit_for_score(bands, score, i) ==
    IF i > Len(bands) THEN -1
    ELSE IF /\ IntOfText(bands[i].score_minimo) <= score
            /\ score <= IntOfText(bands[i].score_maximo)
    THEN FloatOfText(bands[i].limite_maximo)
    ELSE _get_max_limit_for_score(bands, score, i + 1)

ERRO_SISTEMA_CONSULTA ==
    << <<"ERRO_SISTEMA", "Ocorreu um erro inesperado ao consultar os dados.",
         "Por favor">>, <<"tente novamente mais tarde.">> >>

ERRO_CLIENTE == << <<"ERRO", "Cliente nao encontrado na base de dados.">> >>

ERRO_SISTEMA_TABELA ==
    << <<"ERRO_SISTEMA", "Nao foi possivel acessar a tabela de score.",
         "Por favor">>, <<"tente novamente mais tarde.">> >>

ERRO_SISTEMA_SCORE ==
    << <<"ERRO_SISTEMA", "Ocorreu um erro inesperado ao verificar o score.",
         "Por favor">>, <<"tente novamente mais tarde.">> >>

ERRO_SISTEMA_REGISTRO ==
    << <<"ERRO_SISTEMA", "Nao foi possivel registrar a solicitacao.",
         "Por favor">>, <<"tente novamente mais tarde.">> >>

INFORMACAO_TEXT(new_limit, current_limit) ==
    << <<"INFORMACAO", "O limite solicitado (", "R$", Fmt2f(new_limit),
         ") e menor ou igual ao limite atual (", "R$", Fmt2f(current_limit),
         ").", "Nao e necessario solicitar aumento.">> >>

ERRO_SISTEMA_SEM_FAIXA(score) ==
    << <<"ERRO_SISTEMA",
         "Nao foi possivel determinar o limite maximo para o score",
         ToString(score), ".", "Por favor">>,
       <<"tente novamente mais tarde.">> >>

APROVADO_TEXT(current_limit, new_limit, score) ==
    << <<"APROVADO", "Solicitacao de aumento de limite aprovada!",
         "Limite anterior:", "R$", Fmt2f(current_limit), ".", "Novo limite:",
         "R$", Fmt2f(new_limit), ".", "Score atual:", ToString(score),
         ".">> >>

APROVADO_ERRO_TEXT(current_limit, new_limit) ==
    << <<"APROVADO", "Solicitacao aprovada">>,
       <<"porem houve um erro ao atualizar o limite na base de dados.",
         "Limite anterior:", "R$", Fmt2f(current_limit), ".",
         "Novo limite solicitado:", "R$", Fmt2f(new_limit), ".">> >>

REJEITADO_TEXT(current_limit, new_limit, score, max_allowed) ==
    << <<"REJEITADO", "Solicitacao de aumento de limite rejeitada.",
         "Limite atual:", "R$", Fmt2f(current_limit), ".",
         "Limite solicitado:", "R$", Fmt2f(new_limit), ".",
         "Limite maximo permitido para score", ToString(score), ":", "R$",
         Fmt2f(max_allowed), ".",
         "O cliente pode realizar uma entrevista de credito para tentar melhorar seu score.">> >>

\* _limit_decision that looks the band up before it compares new_limit with
\* the current limit
_limit_decision_band_first(cpf, new_limit, clients_csv, score_csv) ==
    LET cpf_clean == _normalize_cpf(cpf)
        rows == clients_csv.rows
        i == _find_client(rows, cpf_clean, 1)
        current_limit == FloatOfText(rows[i].limite_credito)
        score == IntOfText(rows[i].score)
        max_allowed == _get_max_limit_for_score(score_csv.rows, score, 1)
        early(text) == [status |-> "retorna", result |-> text]
    IN IF clients_csv.status = "missing" THEN early(ERRO_SISTEMA_DB)
       ELSE IF clients_csv.status # "ok" THEN early(ERRO_SISTEMA_CONSULTA)
       ELSE IF i = 0 THEN early(ERRO_CLIENTE)
       ELSE IF current_limit < 0 \/ score < 0
       THEN [status |-> "levanta", result |-> <<>>]
       ELSE IF score_csv.status = "missing" THEN early(ERRO_SISTEMA_TABELA)
       ELSE IF score_csv.status # "ok" THEN early(ERRO_SISTEMA_SCORE)
       ELSE IF max_allowed < 0 THEN early(ERRO_SISTEMA_SEM_FAIXA(score))
       ELSE IF new_limit <= current_limit
       THEN early(INFORMACAO_TEXT(new_limit, current_limit))
       ELSE [status |-> IF new_limit <= max_allowed THEN "aprovado"
                        ELSE "rejeitado",
             result |-> <<>>, cpf_clean |-> cpf_clean, rows |-> rows, i |-> i,
             current_limit |-> current_limit, new_limit |-> new_limit,
             score |-> score, max_allowed |-> max_allowed]

\* _limit_decision that does not compare new_limit with the current limit
_limit_decision_no_floor(cpf, new_limit, clients_csv, score_csv) ==
    LET cpf_clean == _normalize_cpf(cpf)
        rows == clients_csv.rows
        i == _find_client(rows, cpf_clean, 1)
        current_limit == FloatOfText(rows[i].limite_credito)
        score == IntOfText(rows[i].score)
        max_allowed == _get_max_limit_for_score(score_csv.rows, score, 1)
        early(text) == [status |-> "retorna", result |-> text]
    IN IF clients_csv.status = "missing" THEN early(ERRO_SISTEMA_DB)
       ELSE IF clients_csv.status # "ok" THEN early(ERRO_SISTEMA_CONSULTA)
       ELSE IF i = 0 THEN early(ERRO_CLIENTE)
       ELSE IF current_limit < 0 \/ score < 0
       THEN [status |-> "levanta", result |-> <<>>]
       ELSE IF score_csv.status = "missing" THEN early(ERRO_SISTEMA_TABELA)
       ELSE IF score_csv.status # "ok" THEN early(ERRO_SISTEMA_SCORE)
       ELSE IF max_allowed < 0 THEN early(ERRO_SISTEMA_SEM_FAIXA(score))
       ELSE [status |-> IF new_limit <= max_allowed THEN "aprovado"
                        ELSE "rejeitado",
             result |-> <<>>, cpf_clean |-> cpf_clean, rows |-> rows, i |-> i,
             current_limit |-> current_limit, new_limit |-> new_limit,
             score |-> score, max_allowed |-> max_allowed]

\* request_limit_increase up to the line that sets status (lines 98 to 158):
\* the client file and the band file are read, nothing is written.  status
\* is "aprovado" or "rejeitado" when the request is decided, "retorna" when
\* the function returns result before that, "levanta" when float() or int()
\* of a field of the client's row raises.  rows is the function's own copy of
\* the client file and i the client's position in it
_limit_decision(cpf, new_limit, clients_csv, score_csv) ==
    LET cpf_clean == _normalize_cpf(cpf)
        rows == clients_csv.rows
        i == _find_client(rows, cpf_clean, 1)
        current_limit == FloatOfText(rows[i].limite_credito)
        score == IntOfText(rows[i].score)
        max_allowed == _get_max_limit_for_score(score_csv.rows, score, 1)
        early(text) == [status |-> "retorna", result |-> text]
    IN IF clients_csv.status = "missing" THEN early(ERRO_SISTEMA_DB)
       ELSE IF clients_csv.status # "ok" THEN early(ERRO_SISTEMA_CONSULTA)
       ELSE IF i = 0 THEN early(ERRO_CLIENTE)
       ELSE IF current_limit < 0 \/ score < 0
       THEN [status |-> "levanta", result |-> <<>>]
       ELSE IF new_limit <= current_limit
       THEN early(INFORMACAO_TEXT(new_limit, current_limit))
       ELSE IF score_csv.status = "missing" THEN early(ERRO_SISTEMA_TABELA)
       ELSE IF score_csv.status # "ok" THEN early(ERRO_SISTEMA_SCORE)
       ELSE IF max_allowed < 0 THEN early(ERRO_SISTEMA_SEM_FAIXA(score))
       ELSE [status |-> IF new_limit <= max_allowed THEN "aprovado"
                        ELSE "rejeitado",
             result |-> <<>>, cpf_clean |-> cpf_clean, rows |-> rows, i |-> i,
             current_limit |-> current_limit, new_limit |-> new_limit,
             score |-> score, max_allowed |-> max_allowed]

\* writer.writerow([cpf_clean, timestamp, current_limit, new_limit, status]):
\* the record appended to the request log (the two amounts are written in
\* full, not rounded; the timestamp is left out)
_request_row(d) ==
    [cpf_cliente |-> d.cpf_clean, limite_atual |-> d.current_limit,
     novo_limite_solicitado |-> d.new_limit, status_pedido |-> d.status]

\* client["limite_credito"] = f"{new_limit:.2f}"; writer.writerows(rows):
\* the rows the function read, the client's limit replaced
_rows_to_write(d) ==
    [d.rows EXCEPT ![d.i].limite_credito = Fmt2f(d.new_limit)]

\* the content of the client file after a rewrite that failed once the file
\* was open: opening it for writing emptied it, and the header and the first
\* kept rows reached it before the failure, which comes before the last row
\* is written
_rows_kept(rows, kept) ==
    SubSeq(rows, 1, IF kept < Len(rows) THEN kept ELSE Len(rows) - 1)

\* what is returned once the request is logged
_decided_text(d, written) ==
    IF d.status = "rejeitado"
    THEN REJEITADO_TEXT(d.current_limit, d.new_limit, d.score, d.max_allowed)
    ELSE IF written
    THEN APROVADO_TEXT(d.current_limit, d.new_limit, d.score)
    ELSE APROVADO_ERRO_TEXT(d.current_limit, d.new_limit)

\* request_limit_increase(cpf, new_limit) run from its first line to its
\* return with no other access to the files in between.  files are the three
\* files before the call; io tells whether the request log can be opened for
\* appending (log) and what the rewrite of the client file does (write): it
\* succeeds ("ok"), the file does not open for writing ("open_fails"), or
\* the file opens, which empties it, and the writing fails after the header
\* and io.kept rows ("write_fails").  Gives whether the call raised, the text
\* returned and the files after the call
request_limit_increase_invoke(cpf, new_limit, files, io) ==
    LET d == _limit_decision(cpf, new_limit, files.clientes, files.score_limite)
        logged == [files EXCEPT !.solicitacoes = Append(@, _request_row(d))]
    IN IF d.status = "levanta"
       THEN [raises |-> TRUE, result |-> <<>>, files |-> files]
       ELSE IF d.status = "retorna"
       THEN [raises |-> FALSE, result |-> d.result, files |-> files]
       ELSE IF ~io.log
       THEN [raises |-> FALSE, result |-> ERRO_SISTEMA_REGISTRO,
             files |-> files]
       ELSE IF d.status = "aprovado" /\ io.write = "ok"
       THEN [raises |-> FALSE, result |-> _decided_text(d, TRUE),
             files |-> [logged EXCEPT !.clientes.rows = _rows_to_write(d)]]
       ELSE IF d.status = "aprovado" /\ io.write = "write_fails"
       THEN [raises |-> FALSE, result |-> _decided_text(d, FALSE),
             files |-> [logged EXCEPT !.clientes.rows =
                           _rows_kept(_rows_to_write(d), io.kept)]]
       ELSE [raises |-> FALSE, result |-> _decided_text(d, FALSE),
             files |-> logged]

\* query_credit_limit(cpf): the f-string of the LIMITE result, the row's
\* fields as they are in the file
LIMITE_TEXT(row) ==
    << <<"LIMITE", "Cliente", row.nome, "(CPF: " \o Join(row.cpf) \o ").",
         "Limite de credito atual:", "R$", row.limite_credito, ".",
         "Score:", row.score, ".">> >>

\* query_credit_limit.invoke({"cpf": cpf}) with clients_csv being the client
\* file
query_credit_limit_invoke(cpf, clients_csv) ==
    LET cpf_clean == _normalize_cpf(cpf)
        i == _find_client(clients_csv.rows, cpf_clean, 1)
    IN IF clients_csv.status = "missing" THEN ERRO_SISTEMA_DB
       ELSE IF clients_csv.status # "ok" THEN ERRO_SISTEMA_CONSULTA
       ELSE IF i = 0 THEN ERRO_CLIENTE
       ELSE LIMITE_TEXT(clients_csv.rows[i])

-----------------------------------------------------------------------------
\* tools/exchange.py: get_exchange_rate as a function of its argument and of
\* what requests.get does.  A currency code is a sequence of characters; a
\* quote is held in ten-thousandths of a real

LOWERCASE == <<"a", "b", "c", "d", "e", "f", "g", "h", "i", "j", "k", "l", "m",
               "n", "o", "p", "q", "r", "s", "t", "u", "v", "w", "x", "y", "z">>

UPPERCASE == <<"A", "B", "C", "D", "E", "F", "G", "H", "I", "J", "K", "L", "M",
               "N", "O", "P", "Q", "R", "S", "T", "U", "V", "W", "X", "Y", "Z">>

\* str.upper()
Upper(str) ==
    [k \in DOMAIN str |->
        IF \E n \in DOMAIN LOWERCASE : LOWERCASE[n] = str[k]
        THEN UPPERCASE[CHOOSE n \in DOMAIN LOWERCASE : LOWERCASE[n] = str[k]]
        ELSE str[k]]

\* str.isalpha(): not empty and letters only
IsAlpha(str) ==
    /\ Len(str) > 0
    /\ \A k \in DOMAIN str :
          \E n \in DOMAIN LOWERCASE : str[k] \in {LOWERCASE[n], UPPERCASE[n]}

CURRENCY_NAMES ==
    [c \in {"USD", "EUR", "GBP", "ARS", "CAD", "AUD", "JPY", "CNY", "BTC"} |->
        CASE c = "USD" -> "Dolar Americano"
          [] c = "EUR" -> "Euro"
          [] c = "GBP" -> "Libra Esterlina"
          [] c = "ARS" -> "Peso Argentino"
          [] c = "CAD" -> "Dolar Canadense"
          [] c = "AUD" -> "Dolar Australiano"
          [] c = "JPY" -> "Iene Japones"
          [] c = "CNY" -> "Yuan Chines"
          [] c = "BTC" -> "Bitcoin"]

\* float(s) of a field of a quote: the decimal texts the service sends
DecimalTable ==
    [s \in {"5.1234", "5.0012", "0.45", "5.0500", "5.0600", "5.05", "5.5000",
            "5.3000", "-0.18", "5.4000", "5.4100"} |->
        CASE s = "5.1234" -> 51234
          [] s = "5.0012" -> 50012
          [] s = "0.45" -> 4500
          [] s = "5.0500" -> 50500
          [] s = "5.0600" -> 50600
          [] s = "5.05" -> 50500
          [] s = "5.5000" -> 55000
          [] s = "5.3000" -> 53000
          [] s = "-0.18" -> 0 - 1800
          [] s = "5.4000" -> 54000
          [] s = "5.4100" -> 54100]

\* f"{x:.4f}" of a quote that is not negative
Fmt4f(x) ==
    ToString(x \div 10000) \o "." \o ToString((x \div 1000) % 10)
        \o ToString((x \div 100) % 10) \o ToString((x \div 10) % 10)
        \o ToString(x % 10)

\* f"{x:+.2f}": the sign, then x rounded to the hundredth (x is never
\* half-way between two hundredths)
FmtSigned2f(x) ==
    LET c == ((IF x < 0 THEN 0 - x ELSE x) + 50) \div 100
    IN (IF x < 0 THEN "-" ELSE "+") \o ToString(c \div 100) \o "."
           \o ToString((c \div 10) % 10) \o ToString(c % 10)

SAMPLE_USD_RESPONSE ==
    [k \in {"USDBRL"} |->
        [code |-> "USD", codein |-> "BRL", high |-> "5.1234", low |-> "5.0012",
         varBid |-> "0.0234", pctChange |-> "0.45", bid |-> "5.0500",
         ask |-> "5.0600"]]

SAMPLE_EUR_RESPONSE ==
    [k \in {"EURBRL"} |->
        [code |-> "EUR", codein |-> "BRL", high |-> "5.5000", low |-> "5.3000",
         varBid |-> "-0.0100", pctChange |-> "-0.18", bid |-> "5.4000",
         ask |-> "5.4100"]]

ERRO_CODIGO ==
    << <<"ERRO", "Codigo de moeda invalido.", "Use codigos como USD">>,
       <<"EUR">>, <<"GBP">>, <<"ARS">>, <<"BTC.">> >>

ERRO_SISTEMA_TIMEOUT ==
    << <<"ERRO_SISTEMA", "A consulta de cotacao demorou muito.", "Por favor">>,
       <<"tente novamente em alguns instantes.">> >>

ERRO_SISTEMA_CONEXAO ==
    << <<"ERRO_SISTEMA", "Nao foi possivel conectar ao servico de cotacao.",
         "Verifique sua conexao e tente novamente.">> >>

ERRO_SISTEMA_COTACAO ==
    << <<"ERRO_SISTEMA", "Ocorreu um erro ao consultar a cotacao.",
         "Por favor">>, <<"tente novamente mais tarde.">> >>

ERRO_SISTEMA_STATUS(status_code) ==
    << <<"ERRO_SISTEMA", "O servico de cotacao retornou um erro",
         "(status " \o ToString(status_code) \o ").", "Por favor">>,
       <<"tente novamente mais tarde.">> >>

ERRO_SISTEMA_RESPOSTA ==
    << <<"ERRO_SISTEMA", "A resposta do servico de cotacao foi invalida.",
         "Por favor">>, <<"tente novamente mais tarde.">> >>

ERRO_MOEDA(code) ==
    << <<"ERRO", "Moeda", "'" \o Join(code) \o "'", "nao encontrada.",
         "Verifique se o codigo esta correto.", "Exemplos validos: USD">>,
       <<"EUR">>, <<"GBP">>, <<"ARS">>, <<"BTC.">> >>

ERRO_SISTEMA_FORMATO ==
    << <<"ERRO_SISTEMA", "Os dados de cotacao estao em formato inesperado.",
         "Por favor">>, <<"tente novamente mais tarde.">> >>

COTACAO_TEXT(currency_name, code, quote) ==
    << <<"COTACAO", currency_name, "(" \o Join(code) \o "/BRL).",
         "Compra:", "R$", Fmt4f(DecimalTable[quote.bid]), ".",
         "Venda:", "R$", Fmt4f(DecimalTable[quote.ask]), ".",
         "Maxima do dia:", "R$", Fmt4f(DecimalTable[quote.high]), ".",
         "Minima do dia:", "R$", Fmt4f(DecimalTable[quote.low]), ".",
         "Variacao:", FmtSigned2f(DecimalTable[quote.pctChange]) \o "%",
         ".">> >>

\* get_exchange_rate.invoke({"currency_code": currency_code}); service is
\* what requests.get does: it raises (kind is the exception's class, Exception
\* standing for one that is no RequestException), or it returns a response
\* with a status code and a body (json is None when the body is no JSON)
get_exchange_rate_invoke(currency_code, service) ==
    LET code == Strip(Upper(currency_code))
        key == Join(code) \o "BRL"
        returns(text) == [raises |-> FALSE, result |-> text]
    IN IF ~IsAlpha(code) \/ Len(code) < 2 \/ Len(code) > 5
       THEN returns(ERRO_CODIGO)
       ELSE IF service.kind = "Timeout" THEN returns(ERRO_SISTEMA_TIMEOUT)
       ELSE IF service.kind = "ConnectionError"
       THEN returns(ERRO_SISTEMA_CONEXAO)
       ELSE IF service.kind = "RequestException"
       THEN returns(ERRO_SISTEMA_COTACAO)
       ELSE IF service.kind = "Exception"
       THEN [raises |-> TRUE, result |-> <<>>]
       ELSE IF service.status_code # 200
       THEN returns(ERRO_SISTEMA_STATUS(service.status_code))
       ELSE IF service.json = None THEN returns(ERRO_SISTEMA_RESPOSTA)
       ELSE IF key \notin DOMAIN service.json THEN returns(ERRO_MOEDA(code))
       ELSE LET quote == service.json[key]
                currency_name ==
                    IF Join(code) \in DOMAIN CURRENCY_NAMES
                    THEN CURRENCY_NAMES[Join(code)] ELSE Join(code)
            IN IF \E f \in {"bid", "ask", "high", "low", "pctChange"} :
                     \/ f \notin DOMAIN quote
                     \/ quote[f] \notin DOMAIN DecimalTable
               THEN returns(ERRO_SISTEMA_FORMATO)
               ELSE returns(COTACAO_TEXT(currency_name, code, quote))

\* what requests.get can do
Response(status_code, json) ==
    [kind |-> "Response", status_code |-> status_code, json |-> json]

ServiceOutcomes ==
    {[kind |-> k] : k \in {"Timeout", "ConnectionError", "RequestException",
                           "Exception"}}
    \cup {Response(500, None), Response(200, None), Response(200, <<>>),
          Response(200, SAMPLE_USD_RESPONSE), Response(200, SAMPLE_EUR_RESPONSE),
          Response(200, [k \in {"USDBRL"} |-> [bid |-> "5.05"]]),
          Response(200, [k \in {"USDBRL"} |->
                            [SAMPLE_USD_RESPONSE["USDBRL"] EXCEPT
                                 !.pctChange = "abc"]])}

-----------------------------------------------------------------------------
\* The tools of the credit interview (tools/interview.py), as
\* src/tests/interview/test_tools.py and src/tests/shared/test_graph.py show
\* them

\* calculate_credit_score on the answers of test_formal_no_debts
calculate_credit_score ==
    { << <<"SCORE_CALCULADO", "575", ".">> >> }

\* the result when the client file cannot be read or written; the tests show
\* its prefix only
ERRO_SISTEMA_ATUALIZACAO == << <<"ERRO_SISTEMA">> >>

ATUALIZADO_TEXT(old_score, new_score) ==
    << <<"ATUALIZADO", "Score do cliente atualizado de", old_score, "para",
         ToString(new_score), ".">> >>

\* update_client_score.invoke({"cpf": cpf, "new_score": new_score}): the
\* client's score is replaced in the client file; write tells whether the
\* file opens for writing.  Gives the text returned and the files after the
\* call
update_client_score_invoke(cpf, new_score, files, write) ==
    LET cpf_clean == _normalize_cpf(cpf)
        rows == files.clientes.rows
        i == _find_client(rows, cpf_clean, 1)
        returns(text) == [raises |-> FALSE, result |-> text, files |-> files]
    IN IF files.clientes.status # "ok" THEN returns(ERRO_SISTEMA_ATUALIZACAO)
       ELSE IF i = 0 THEN returns(ERRO_CLIENTE)
       ELSE IF ~write THEN returns(ERRO_SISTEMA_ATUALIZACAO)
       ELSE [raises |-> FALSE,
             result |-> ATUALIZADO_TEXT(rows[i].score, new_score),
             files |-> [files EXCEPT
                            !.clientes.rows[i].score = ToString(new_score)]]

-----------------------------------------------------------------------------
\* tool.invoke(tool_args) of the tools registered by graph.py

\* the arguments a tool requires
ToolSchema ==
    [t \in TOOL_MAP |->
        CASE t = "authenticate_client" -> {"cpf", "birth_date"}
          [] t = "query_credit_limit" -> {"cpf"}
          [] t = "request_limit_increase" -> {"cpf", "new_limit"}
          [] t = "update_client_score" -> {"cpf", "new_score"}
          [] t = "calculate_credit_score" ->
                {"renda_mensal", "tipo_emprego", "despesas_fixas",
                 "num_dependentes", "tem_dividas"}
          [] t = "get_exchange_rate" -> {"currency_code"}
          [] OTHER -> {}]

\* tool.invoke(tool_args) with files being the three files and env what the
\* call finds outside them (whether the request log opens for appending, log,
\* what the rewrite of the client file does, write and kept, and what
\* requests.get does, service): [raises, result, files after the call].  The
\* call raises when a required argument is missing or new_limit is no number
\* (the arguments are validated against the tool's signature) and when the
\* tool lets an exception out
ToolInvoke(tool_name, tool_args, files, env) ==
    LET returns(text) == [raises |-> FALSE, result |-> text, files |-> files]
        raised == [raises |-> TRUE, result |-> <<>>, files |-> files]
    IN IF ~(ToolSchema[tool_name] \subseteq DOMAIN tool_args) THEN raised
       ELSE CASE tool_name = "authenticate_client" ->
                   returns(authenticate_client_invoke(
                               tool_args.cpf, tool_args.birth_date,
                               files.clientes))
              [] tool_name = "query_credit_limit" ->
                   returns(query_credit_limit_invoke(tool_args.cpf,
                                                     files.clientes))
              [] tool_name = "request_limit_increase" ->
                   IF PyFloat(tool_args.new_limit) < 0 THEN raised
                   ELSE request_limit_increase_invoke(
                            tool_args.cpf, PyFloat(tool_args.new_limit),
                            files, env)
              [] tool_name = "update_client_score" ->
                   update_client_score_invoke(
                       tool_args.cpf, tool_args.new_score, files,
                       env.write = "ok")
              [] tool_name = "calculate_credit_score" ->
                   returns(CHOOSE t \in calculate_credit_score : TRUE)
              [] tool_name = "get_exchange_rate" ->
                   LET o == get_exchange_rate_invoke(tool_args.currency_code,
                                                     env.service)
                   IN [raises |-> o.raises, result |-> o.result,
                       files |-> files]
              [] tool_name = "end_conversation" ->
                   returns(CHOOSE t \in end_conversation : TRUE)
              [] tool_name = "transfer_to_credit" ->
                   returns(CHOOSE t \in transfer_to_credit : TRUE)
              [] tool_name = "transfer_to_exchange" ->
                   returns(CHOOSE t \in transfer_to_exchange : TRUE)
              [] tool_name = "transfer_to_interview" ->
                   returns(CHOOSE t \in transfer_to_interview : TRUE)
              [] tool_name = "transfer_to_triage" ->
                   returns(CHOOSE t \in transfer_to_triage : TRUE)

\* what the writes of one call can do: both succeed, the request log does
\* not open for appending, the client file does not open for writing, the
\* writing of the client file fails before anything reached it, or after the
\* header and the first row
OpenOutcomes ==
    {[log |-> TRUE, write |-> "ok", kept |-> 0],
     [log |-> FALSE, write |-> "ok", kept |-> 0],
     [log |-> TRUE, write |-> "open_fails", kept |-> 0],
     [log |-> TRUE, write |-> "write_fails", kept |-> 0],
     [log |-> TRUE, write |-> "write_fails", kept |-> 1]}

\* what the calls of a conversation find outside the files: the files open
\* or one of them does not, and the service answers with the quote, cannot
\* be reached, or answers without one
ToolEnvs(tool_name) ==
    CASE tool_name \in {"request_limit_increase", "update_client_score"} ->
            {[log |-> o.log, write |-> o.write, kept |-> o.kept,
              service |-> Response(200, SAMPLE_USD_RESPONSE)] :
                o \in OpenOutcomes}
      [] tool_name = "get_exchange_rate" ->
            {[log |-> TRUE, write |-> "ok", kept |-> 0, service |-> v] :
                v \in {Response(200, SAMPLE_USD_RESPONSE),
                       [kind |-> "ConnectionError"], Response(500, None)}}
      [] OTHER -> {[log |-> TRUE, write |-> "ok", kept |-> 0,
                    service |-> Response(200, SAMPLE_USD_RESPONSE)]}

\* the arguments the model backend sends with a request; the value of
\* new_limit is a number [num |-> n], a string [str |-> s] or None
ToolArgs(tool_name) ==
    CASE tool_name = "authenticate_client" ->
            {[cpf |-> CPF_PLAIN, birth_date |-> <<"15/03/1990">>],
             [cpf |-> CPF_PLAIN, birth_date |-> <<"01/01/2000">>]}
      [] tool_name = "request_limit_increase" ->
            {[cpf |-> CPF_PLAIN, new_limit |-> [num |-> 7000000]],
             [cpf |-> CPF_PLAIN, new_limit |-> [num |-> 10000000]]}
      [] tool_name = "update_client_score" ->
            {[cpf |-> CPF_PLAIN, new_score |-> 800]}
      [] tool_name = "query_credit_limit" -> {[cpf |-> CPF_PLAIN]}
      [] tool_name = "get_exchange_rate" ->
            {[currency_code |-> <<"U", "S", "D">>]}
      [] tool_name = "calculate_credit_score" ->
            {[renda_mensal |-> 5000000, tipo_emprego |-> "formal",
              despesas_fixas |-> 2000000, num_dependentes |-> 0,
              tem_dividas |-> "nao"]}
      [] OTHER -> {<<>>}

-----------------------------------------------------------------------------
\* The tools of src/tests/shared/test_graph.py: a MagicMock put in TOOL_MAP
\* in place of a tool, whose invoke returns a given text or raises, whatever
\* the arguments, and touches no file

\* fake_tool.invoke.return_value: the texts of the tests and of the tools
return_value(tool_name) ==
    CASE tool_name = "authenticate_client" ->
            { << <<"SUCESSO", "Cliente autenticado.", "Nome:", "Joao Silva">>,
                 <<"CPF:", "12345678901">>,
                 <<"Limite de credito:", "R$", "5000.00">>,
                 <<"Score:", "650">> >>,
              << <<"SUCESSO", "Cliente autenticado.", "Nome:", "Joao Silva">>,
                 <<"CPF:", "12345678901">>,
                 <<"Limite de credito:", "R$", "5000.00">>,
                 <<"Score:", "n/d">> >>,
              FALHA_NO_MATCH,
              ERRO_SISTEMA_DB }
      [] tool_name = "query_credit_limit" ->
            {LIMITE_TEXT(CLIENTS_FIXTURE.rows[1])}
      [] tool_name = "request_limit_increase" ->
            { << <<"APROVADO", "Solicitacao aprovada!", "Limite anterior:",
                   "R$", "5000.00", ".", "Novo limite:", "R$", "7000.00",
                   ".">> >>,
              << <<"REJEITADO", "Score insuficiente.">> >> }
      [] tool_name = "calculate_credit_score" -> calculate_credit_score
      [] tool_name = "update_client_score" ->
            { ATUALIZADO_TEXT("650", 800),
              ERRO_CLIENTE,
              << <<"ATUALIZADO", "formato inesperado">> >>,
              << <<"ATUALIZADO", "Score do cliente atualizado de", "650",
                   "para", "n/d", ".">> >>,
              << <<"ATUALIZADO", "Score do cliente atualizado de", "650",
                   "para", "800", ".", "Obrigado", ".">> >>,
              << <<"ERRO", "Falha ao gravar a mudanca de", "650", "para",
                   "800", ".">> >> }
      [] tool_name = "get_exchange_rate" ->
            {COTACAO_TEXT("Dolar Americano", <<"U", "S", "D">>,
                          SAMPLE_USD_RESPONSE["USDBRL"])}
      [] tool_name = "end_conversation" -> end_conversation
      [] tool_name = "transfer_to_credit" -> transfer_to_credit
      [] tool_name = "transfer_to_exchange" -> transfer_to_exchange
      [] tool_name = "transfer_to_interview" -> transfer_to_interview
      [] tool_name = "transfer_to_triage" -> transfer_to_triage

\* fake_tool.invoke(tool_args): the return value, or the side effect (an
\* exception)
fake_tool(tool_name) ==
    {[raises |-> FALSE, result |-> t] : t \in return_value(tool_name)}
        \cup {[raises |-> TRUE, result |-> <<>>]}

-----------------------------------------------------------------------------
\* graph.py: the state-delta rules of tool_node

ParseError == [py_error |-> TRUE]

\* the loop over result_str.split(", ") in _handle_auth_result; ParseError
\* stands for the IndexError / ValueError the loop can raise
RECURSIVE _parse_client_data(_, _, _)
_parse_client_data(parts, i, cd) ==
    IF i > Len(parts) THEN cd
    ELSE LET part == parts[i] IN
         IF IndexOf(part, "Nome:", 1) > 0
         THEN _parse_client_data(parts, i + 1,
                                 DictSet(cd, "nome", After(part, "Nome:")))
         ELSE IF IndexOf(part, "CPF:", 1) > 0
         THEN _parse_client_data(parts, i + 1,
                                 DictSet(cd, "cpf", After(part, "CPF:")))
         ELSE IF IndexOf(part, "Limite de credito:", 1) > 0
         THEN IF IndexOf(part, "R$", 1) = 0 \/ ParseFloat(After(part, "R$")) < 0
              THEN ParseError
              ELSE _parse_client_data(parts, i + 1,
                       DictSet(cd, "limite_credito", ParseFloat(After(part, "R$"))))
         ELSE IF IndexOf(part, "Score:", 1) > 0
         THEN IF ParseInt(After(part, "Score:")) < 0
              THEN ParseError
              ELSE _parse_client_data(parts, i + 1,
                       DictSet(cd, "score", ParseInt(After(part, "Score:"))))
         ELSE _parse_client_data(parts, i + 1, cd)

\* _handle_auth_result that withdraws the authentication on a failed attempt
_handle_auth_result_reset(result_str, state, updates) ==
    IF StartsWith(result_str, "SUCESSO")
    THEN LET cd == _parse_client_data(result_str, 1, <<>>)
         IN DictSet(DictSet(updates, "authenticated", TRUE), "client_data",
                    IF cd = ParseError THEN [raw |-> result_str] ELSE cd)
    ELSE IF StartsWith(result_str, "FALHA")
    THEN DictSet(DictSet(updates, "auth_attempts", state.auth_attempts + 1),
                 "authenticated", FALSE)
    ELSE updates

\* _handle_auth_result that leaves client_data empty when the parse fails
_handle_auth_result_no_raw(result_str, state, updates) ==
    IF StartsWith(result_str, "SUCESSO")
    THEN LET cd == _parse_client_data(result_str, 1, <<>>)
         IN DictSet(DictSet(updates, "authenticated", TRUE), "client_data",
                    IF cd = ParseError THEN <<>> ELSE cd)
    ELSE IF StartsWith(result_str, "FALHA")
    THEN DictSet(updates, "auth_attempts", state.auth_attempts + 1)
    ELSE updates

\* _handle_auth_result that stops counting at three failed attempts
_handle_auth_result_capped(result_str, state, updates) ==
    IF StartsWith(result_str, "SUCESSO")
    THEN LET cd == _parse_client_data(result_str, 1, <<>>)
         IN DictSet(DictSet(updates, "authenticated", TRUE), "client_data",
                    IF cd = ParseError THEN [raw |-> result_str] ELSE cd)
    ELSE IF StartsWith(result_str, "FALHA")
    THEN DictSet(updates, "auth_attempts",
                 IF state.auth_attempts >= 3 THEN 3
                 ELSE state.auth_attempts + 1)
    ELSE updates

\* the new state_updates
_handle_auth_result(result_str, state, updates) ==
    IF StartsWith(result_str, "SUCESSO")
    THEN LET cd == _parse_client_data(result_str, 1, <<>>)
         IN DictSet(DictSet(updates, "authenticated", TRUE), "client_data",
                    IF cd = ParseError THEN [raw |-> result_str] ELSE cd)
    ELSE IF StartsWith(result_str, "FALHA")
    THEN DictSet(updates, "auth_attempts", state.auth_attempts + 1)
    ELSE updates

\* int(result_str.split("para ")[1].rstrip(".")): an IndexError when "para"
\* is absent, a ValueError when what follows it, trailing full stops removed,
\* is not one integer (-1 stands for both); the tool's text has a single part
new_score_of(result_str) ==
    LET part == result_str[1]
        toks == RStrip(Between(part, "para"))
    IN IF IndexOf(part, "para", 1) = 0 \/ Len(toks) # 1 THEN -1
       ELSE ParseInt(toks[1])

\* _handle_score_update that ignores the prefix of the result
_handle_score_update_any_prefix(result_str, state, updates) ==
    IF Truthy(state.client_data)
    THEN IF new_score_of(result_str) < 0 THEN updates
         ELSE DictSet(updates, "client_data",
                      DictSet(state.client_data, "score",
                              new_score_of(result_str)))
    ELSE updates

\* _handle_score_update that starts a client record when the state has none
_handle_score_update_creates(result_str, state, updates) ==
    IF StartsWith(result_str, "ATUALIZADO")
    THEN IF new_score_of(result_str) < 0 THEN updates
         ELSE DictSet(updates, "client_data",
                      IF Truthy(state.client_data)
                      THEN DictSet(state.client_data, "score",
                                   new_score_of(result_str))
                      ELSE [score |-> new_score_of(result_str)])
    ELSE updates

\* the new state_updates; the client_data copied is the input state's
_handle_score_update(result_str, state, updates) ==
    IF StartsWith(result_str, "ATUALIZADO") /\ Truthy(state.client_data)
    THEN IF new_score_of(result_str) < 0 THEN updates
         ELSE DictSet(updates, "client_data",
                      DictSet(state.client_data, "score",
                              new_score_of(result_str)))
    ELSE updates

\* the limit an approved request prints after "Novo limite: R$"
new_limit_of_text(result_str) ==
    LET part == result_str[1]
        i == IndexOf(part, "Novo limite:", 1)
    IN IF i = 0 \/ i + 2 > Len(part) THEN -1 ELSE ParseFloat(part[i + 2])

\* _handle_limit_increase that reads the new limit back from the result text
_handle_limit_increase_from_text(result_str, tool_args, state, updates) ==
    IF StartsWith(result_str, "APROVADO") /\ Truthy(state.client_data)
    THEN IF new_limit_of_text(result_str) < 0 THEN updates
         ELSE DictSet(updates, "client_data",
                      DictSet(state.client_data, "limite_credito",
                              new_limit_of_text(result_str)))
    ELSE updates

\* float(tool_args["new_limit"]): a KeyError when the argument is missing, a
\* ValueError or TypeError when it is no number; all three leave the update
\* as it was.  The client_data copied is the input state's
_handle_limit_increase(result_str, tool_args, state, updates) ==
    IF StartsWith(result_str, "APROVADO") /\ Truthy(state.client_data)
    THEN IF "new_limit" \notin DOMAIN tool_args THEN updates
         ELSE IF PyFloat(tool_args.new_limit) < 0 THEN updates
         ELSE DictSet(updates, "client_data",
                      DictSet(state.client_data, "limite_credito",
                              PyFloat(tool_args.new_limit)))
    ELSE updates

\* the text tool_node puts in place of an unknown tool's result
UnknownToolText(tool_name) ==
    << <<"ERRO", "Ferramenta", tool_name, "nao disponivel", ".">> >>

\* the text tool_node puts in place of the result of a tool that raised
ERRO_SISTEMA ==
    << <<"ERRO_SISTEMA", "Ocorreu um erro ao executar esta operacao.",
         "Tente novamente.">> >>

\* apply_tool_rules that transfers only on a TRANSFERENCIA result
apply_tool_rules_by_text(tool_name, tool_args, result_str, state, updates) ==
    IF tool_name = "end_conversation"
    THEN DictSet(updates, "should_end", TRUE)
    ELSE IF tool_name = "authenticate_client"
    THEN _handle_auth_result(result_str, state, updates)
    ELSE IF tool_name \in DOMAIN TRANSFER_MAP
    THEN IF StartsWith(result_str, "TRANSFERENCIA")
         THEN DictSet(updates, "current_agent", TRANSFER_MAP[tool_name])
         ELSE updates
    ELSE IF tool_name = "update_client_score"
    THEN _handle_score_update(result_str, state, updates)
    ELSE IF tool_name = "request_limit_increase"
    THEN _handle_limit_increase(result_str, tool_args, state, updates)
    ELSE updates

\* apply_tool_rules that writes should_end for every tool
apply_tool_rules_end_flag(tool_name, tool_args, result_str, state, updates) ==
    LET flagged == DictSet(updates, "should_end", tool_name = "end_conversation")
    IN IF tool_name = "end_conversation"
       THEN flagged
       ELSE IF tool_name = "authenticate_client"
       THEN _handle_auth_result(result_str, state, flagged)
       ELSE IF tool_name \in DOMAIN TRANSFER_MAP
       THEN DictSet(flagged, "current_agent", TRANSFER_MAP[tool_name])
       ELSE IF tool_name = "update_client_score"
       THEN _handle_score_update(result_str, state, flagged)
       ELSE IF tool_name = "request_limit_increase"
       THEN _handle_limit_increase(result_str, tool_args, state, flagged)
       ELSE flagged

\* apply_tool_rules that ends the conversation of an authenticated client only
apply_tool_rules_end_if_auth(tool_name, tool_args, result_str, state, updates) ==
    IF tool_name = "end_conversation"
    THEN IF state.authenticated
         THEN DictSet(updates, "should_end", TRUE)
         ELSE updates
    ELSE IF tool_name = "authenticate_client"
    THEN _handle_auth_result(result_str, state, updates)
    ELSE IF tool_name \in DOMAIN TRANSFER_MAP
    THEN DictSet(updates, "current_agent", TRANSFER_MAP[tool_name])
    ELSE IF tool_name = "update_client_score"
    THEN _handle_score_update(result_str, state, updates)
    ELSE IF tool_name = "request_limit_increase"
    THEN _handle_limit_increase(result_str, tool_args, state, updates)
    ELSE updates

\* apply_tool_rules whose transfers also clear the failed-attempt counter
apply_tool_rules_transfer_resets(tool_name, tool_args, result_str, state, updates) ==
    IF tool_name = "end_conversation"
    THEN DictSet(updates, "should_end", TRUE)
    ELSE IF tool_name = "authenticate_client"
    THEN _handle_auth_result(result_str, state, updates)
    ELSE IF tool_name \in DOMAIN TRANSFER_MAP
    THEN DictSet(DictSet(updates, "current_agent", TRANSFER_MAP[tool_name]),
                 "auth_attempts", 0)
    ELSE IF tool_name = "update_client_score"
    THEN _handle_score_update(result_str, state, updates)
    ELSE IF tool_name = "request_limit_increase"
    THEN _handle_limit_increase(result_str, tool_args, state, updates)
    ELSE updates

\* state_updates after the per-tool rules of one call
apply_tool_rules(tool_name, tool_args, result_str, state, updates) ==
    IF tool_name = "end_conversation"
    THEN DictSet(updates, "should_end", TRUE)
    ELSE IF tool_name = "authenticate_client"
    THEN _handle_auth_result(result_str, state, updates)
    ELSE IF tool_name \in DOMAIN TRANSFER_MAP
    THEN DictSet(updates, "current_agent", TRANSFER_MAP[tool_name])
    ELSE IF tool_name = "update_client_score"
    THEN _handle_score_update(result_str, state, updates)
    ELSE IF tool_name = "request_limit_increase"
    THEN _handle_limit_increase(result_str, tool_args, state, updates)
    ELSE updates

\* tool_node_call that records nothing for an unknown tool
tool_node_call_drop_unknown(tool_call, outcome, state, acc) ==
    IF tool_call.name \notin DOMAIN registry
    THEN acc
    ELSE LET result == IF outcome.raises THEN ERRO_SISTEMA ELSE outcome.result
         IN [tool_messages |->
                 Append(acc.tool_messages,
                        ToolMessage(result, tool_call.id, tool_call.name)),
             state_updates |->
                 apply_tool_rules(tool_call.name, tool_call.args, result,
                                  state, acc.state_updates)]

\* tool_node_call that reports a raising tool without the ERRO_SISTEMA prefix
tool_node_call_plain_error(tool_call, outcome, state, acc) ==
    IF tool_call.name \notin DOMAIN registry
    THEN [tool_messages |->
              Append(acc.tool_messages,
                     ToolMessage(UnknownToolText(tool_call.name),
                                 tool_call.id, tool_call.name)),
          state_updates |-> acc.state_updates]
    ELSE LET result == IF outcome.raises
                       THEN << <<"ERRO", "Ocorreu um erro ao executar esta operacao.">> >>
                       ELSE outcome.result
         IN [tool_messages |->
                 Append(acc.tool_messages,
                        ToolMessage(result, tool_call.id, tool_call.name)),
             state_updates |->
                 apply_tool_rules(tool_call.name, tool_call.args, result,
                                  state, acc.state_updates)]

\* tool_node_call that keeps the first value written to a field of the update
tool_node_call_first_write(tool_call, outcome, state, acc) ==
    IF tool_call.name \notin DOMAIN registry
    THEN [tool_messages |->
              Append(acc.tool_messages,
                     ToolMessage(UnknownToolText(tool_call.name),
                                 tool_call.id, tool_call.name)),
          state_updates |-> acc.state_updates]
    ELSE LET result == IF outcome.raises THEN ERRO_SISTEMA ELSE outcome.result
             written == apply_tool_rules(tool_call.name, tool_call.args, result,
                                         state, acc.state_updates)
         IN [tool_messages |->
                 Append(acc.tool_messages,
                        ToolMessage(result, tool_call.id, tool_call.name)),
             state_updates |->
                 [k \in DOMAIN written |->
                     IF k \in DOMAIN acc.state_updates
                     THEN acc.state_updates[k] ELSE written[k]]]

\* tool_node_call that applies the rules to an unknown tool's name as well
tool_node_call_rules_for_unknown(tool_call, outcome, state, acc) ==
    IF tool_call.name \notin DOMAIN registry
    THEN [tool_messages |->
              Append(acc.tool_messages,
                     ToolMessage(UnknownToolText(tool_call.name),
                                 tool_call.id, tool_call.name)),
          state_updates |->
              apply_tool_rules(tool_call.name, tool_call.args,
                               UnknownToolText(tool_call.name), state,
                               acc.state_updates)]
    ELSE LET result == IF outcome.raises THEN ERRO_SISTEMA ELSE outcome.result
         IN [tool_messages |->
                 Append(acc.tool_messages,
                        ToolMessage(result, tool_call.id, tool_call.name)),
             state_updates |->
                 apply_tool_rules(tool_call.name, tool_call.args, result,
                                  state, acc.state_updates)]

\* tool_node_call that applies no rule when the tool raised
tool_node_call_no_rules_on_error(tool_call, outcome, state, acc) ==
    IF tool_call.name \notin DOMAIN registry
    THEN [tool_messages |->
              Append(acc.tool_messages,
                     ToolMessage(UnknownToolText(tool_call.name),
                                 tool_call.id, tool_call.name)),
          state_updates |-> acc.state_updates]
    ELSE LET result == IF outcome.raises THEN ERRO_SISTEMA ELSE outcome.result
         IN [tool_messages |->
                 Append(acc.tool_messages,
                        ToolMessage(result, tool_call.id, tool_call.name)),
             state_updates |->
                 IF outcome.raises THEN acc.state_updates
                 ELSE apply_tool_rules(tool_call.name, tool_call.args, result,
                                       state, acc.state_updates)]

\* one iteration of the loop of tool_node over last_message.tool_calls:
\* the new [tool_messages, state_updates]; outcome is what tool.invoke did
tool_node_call(tool_call, outcome, state, acc) ==
    IF tool_call.name \notin DOMAIN registry
    THEN [tool_messages |->
              Append(acc.tool_messages,
                     ToolMessage(UnknownToolText(tool_call.name),
                                 tool_call.id, tool_call.name)),
          state_updates |-> acc.state_updates]
    ELSE LET result == IF outcome.raises THEN ERRO_SISTEMA ELSE outcome.result
         IN [tool_messages |->
                 Append(acc.tool_messages,
                        ToolMessage(result, tool_call.id, tool_call.name)),
             state_updates |->
                 apply_tool_rules(tool_call.name, tool_call.args, result,
                                  state, acc.state_updates)]

\* routing

\* route_entry that always starts a turn at triage
route_entry_triage(state) == "triage"

\* route_entry whose default is the credit agent
route_entry_credit(state) == DictGet(state, "current_agent", "credit")

route_entry(state) == DictGet(state, "current_agent", "triage")

\* should_continue that never sees the pending requests
should_continue_blind(state) == "END"

\* should_continue that ends the turn once the history has seven messages
should_continue_capped(state) ==
    LET last_message == state.messages[Len(state.messages)]
    IN IF /\ "tool_calls" \in DOMAIN last_message
          /\ last_message.tool_calls # <<>>
          /\ Len(state.messages) < 7
       THEN "tools" ELSE "END"

should_continue(state) ==
    LET last_message == state.messages[Len(state.messages)]
    IN IF "tool_calls" \in DOMAIN last_message /\ last_message.tool_calls # <<>>
       THEN "tools" ELSE "END"

\* route_after_tools that always goes back to triage
route_after_tools_triage(state) == "triage"

\* route_after_tools that reads the role the batch started with
route_after_tools_stale(state) == current_agent

route_after_tools(state) == DictGet(state, "current_agent", "triage")

-----------------------------------------------------------------------------
\* The model backend (llm_with_tools.invoke): a black box that answers with
\* plain text (possibly empty), with a batch of tool-call requests, or raises

UnknownTools == {"ferramenta_inexistente"}

RequestableTools == TOOL_MAP \cup UnknownTools

PlainTexts == { <<>>, << <<"Ola!", "Como posso ajudar?">> >> }

ToolCall(tool_name, tool_args, id) ==
    [name |-> tool_name, args |-> tool_args, id |-> id]

\* the requests for tools of names: a name and arguments for it
Requests(names) ==
    UNION {{<<t, a>> : a \in ToolArgs(t)} : t \in names}

\* the batches of n requests for tools of names; ids are unique in the
\* conversation
Batches(names, n, history) ==
    {[k \in 1..n |-> ToolCall(choice[k][1], choice[k][2],
                              10 * (Len(history) + 1) + k)] :
        choice \in [1..n -> Requests(names)]}

\* what llm_with_tools.invoke can do: answer with a text, answer with a batch
\* of requests for tools of names, of one of the sizes (as long as the results
\* and a final answer fit in a conversation of bound messages: the model is
\* taken to end each turn with an answer without requests), or raise
LLMInvokeOn(names, sizes, bound, history) ==
    {[raises |-> FALSE, response |-> AIMessage(t, <<>>)] : t \in PlainTexts}
    \cup {[raises |-> FALSE, response |-> AIMessage(<<>>, b)] :
             b \in UNION {Batches(names, n, history) :
                            n \in {m \in sizes : Len(history) + m + 2 <= bound}}}
    \cup {[raises |-> TRUE, response |-> <<>>]}

LLMInvoke(history) ==
    LLMInvokeOn(RequestableTools, 1..MaxBatch, MaxMsgs, history)

\* the model backend of a long conversation about authentication only: one
\* request per answer, for authenticate_client or end_conversation
DeepTools == {"authenticate_client", "end_conversation"}

LLMInvokeDeep(history) == LLMInvokeOn(DeepTools, {1}, MaxDeepMsgs, history)

FALLBACK_TEXT ==
    << <<"Peco desculpas">>,
       <<"mas estou com", "dificuldades tecnicas", "no momento.",
         "Por favor">>,
       <<"tente novamente em alguns instantes.">> >>

\* _agent_node whose fallback message has no text
_agent_node_silent(answer) ==
    IF answer.raises THEN AIMessage(<<>>, <<>>) ELSE answer.response

\* the message _agent_node returns for an answer of the model backend
_agent_node(answer) ==
    IF answer.raises THEN AIMessage(FALLBACK_TEXT, <<>>) ELSE answer.response

\* _agent_node whose return value also clears the failed-attempt counter
_agent_node_update_reset(answer) ==
    [messages |-> <<_agent_node(answer)>>, auth_attempts |-> 0]

\* the dict _agent_node returns: {"messages": [response]} on both paths
_agent_node_update(answer) == [messages |-> <<_agent_node(answer)>>]

-----------------------------------------------------------------------------
\* The conversation state and the graph

state ==
    [messages |-> messages, authenticated |-> authenticated,
     client_data |-> client_data, auth_attempts |-> auth_attempts,
     current_agent |-> current_agent, should_end |-> should_end]

\* merge_update without the add_messages reducer: the returned messages
\* replace the history
merge_update_replace(st, update) ==
    [k \in DOMAIN st |-> IF k \notin DOMAIN update THEN st[k] ELSE update[k]]

\* a node's return value merged into the state: messages are appended
\* (add_messages), every other returned key overwrites the field
merge_update(st, update) ==
    [k \in DOMAIN st |->
        IF k \notin DOMAIN update THEN st[k]
        ELSE IF k = "messages" THEN st[k] \o update[k]
        ELSE update[k]]

SetState(st) ==
    /\ messages' = st.messages
    /\ authenticated' = st.authenticated
    /\ client_data' = st.client_data
    /\ auth_attempts' = st.auth_attempts
    /\ current_agent' = st.current_agent
    /\ should_end' = st.should_end

\* the variables of the conversation state
state_vars == <<messages, authenticated, client_data, auth_attempts,
                current_agent, should_end>>

\* the locals of tool_node
tool_vars == <<idx, tool_messages, state_updates, tool_raised>>

\* what a run of the program never changes
env_vars == <<caller, llm_ok, registry>>

\* the files of tools/credit.py and the calls at work on them
file_vars == <<clientes_csv, score_limite_csv, solicitacoes_csv, inflight>>

\* the dict objects of the conversations (used by SpecSessions only)
session_vars == <<heap, session>>

\* what _agent_node passed to the model backend and whether it raised
llm_vars == <<llm_raised, llm_input>>

\* a function called on its own (used by SpecFn only)
fn_vars == <<fn_in, fn_out>>

Sessions == {"s1", "s2"}

\* the client file a run finds: the fixture's, one whose first row has a
\* score that is no number, none, one that cannot be decoded
ClientFilesOfRun ==
    {CLIENTS_FIXTURE,
     [CLIENTS_FIXTURE EXCEPT !.rows[1].score = "n/d"],
     [status |-> "missing", rows |-> <<>>],
     [status |-> "corrupted", rows |-> <<>>]}

\* the registry tools holds and the client file being one of client_files;
\* the other files as the credit_csvs fixture writes them (an empty request
\* log), no call at work on them
InitFilesOn(tools, client_files) ==
    /\ registry = tools
    /\ clientes_csv \in client_files
    /\ score_limite_csv = SCORE_LIMIT_FIXTURE
    /\ solicitacoes_csv = <<>>
    /\ inflight = [s \in Sessions |-> [pc |-> "idle"]]

\* the registry as graph.py builds it, the files of the fixture
InitFiles == InitFilesOn([t \in TOOL_MAP |-> "tool"], {CLIENTS_FIXTURE})

Init ==
    /\ messages = <<>>
    /\ authenticated = _get_initial_state.authenticated
    /\ client_data = _get_initial_state.client_data
    /\ auth_attempts = _get_initial_state.auth_attempts
    /\ current_agent = _get_initial_state.current_agent
    /\ should_end = _get_initial_state.should_end
    /\ pc = "init"
    /\ node = "START"
    /\ idx = 0
    /\ tool_messages = <<>>
    /\ state_updates = <<>>
    /\ caller \in {"cli", "app"}
    /\ llm_ok \in BOOLEAN
    /\ llm_raised = FALSE
    /\ tool_raised = <<>>
    /\ heap = <<>>
    /\ session = [s \in Sessions |-> 0]
    /\ llm_input = <<>>
    /\ fn_in = None
    /\ fn_out = <<>>
    /\ InitFilesOn([t \in TOOL_MAP |-> "tool"], ClientFilesOfRun)

\* builder.compile() of build_graph and graph.invoke(state) of main.py and
\* app.py set no recursion_limit, so a call runs under the graph library's
\* default: at most 25 node runs, after which the call raises instead of
\* running another node
RECURSION_LIMIT == 25

\* the assistant messages of history that follow its last human message:
\* the answers of the agent nodes of the call at work
RECURSIVE AnswersOfCall(_, _)
AnswersOfCall(history, p) ==
    IF p = 0 \/ history[p].type = "human" THEN 0
    ELSE (IF history[p].type = "ai" THEN 1 ELSE 0)
            + AnswersOfCall(history, p - 1)

\* the node runs the call at work has completed: every agent run has
\* appended one assistant message and a run of the tool node lies between
\* two agent runs
NodeRuns ==
    LET answers == AnswersOfCall(messages, Len(messages))
    IN IF pc = "agent" THEN 2 * answers ELSE 2 * answers - 1

\* build_graph: the caller builds and compiles the graph; no model backend
\* is created here, so it succeeds with or without credentials
BuildGraph ==
    /\ pc = "init"
    /\ pc' = "start"
    /\ UNCHANGED <<state_vars, tool_vars, env_vars, file_vars, fn_vars, session_vars, node,
                   llm_vars>>

\* the caller's first graph.invoke, on the initial state with no message
FirstInvoke ==
    /\ pc = "start"
    /\ pc' = "agent"
    /\ node' = route_entry(state)
    /\ UNCHANGED <<state_vars, tool_vars, env_vars, file_vars, fn_vars, session_vars, llm_vars>>

\* the condition under which the caller offers another turn: the while
\* condition of the CLI loop, the else branch of the chat UI
LoopCondition_always(st) == TRUE

LoopCondition(st) == ~DictGet(st, "should_end", FALSE)

\* the caller reads a line, appends it and calls graph.invoke; bound is the
\* length up to which the conversation is explored
UserTurnUpTo(bound) ==
    /\ pc \in {"returned", "caught"}
    /\ LoopCondition(state)
    /\ Len(messages) + 2 <= bound
    /\ messages' = Append(messages, HumanMessage(<< <<"mensagem do cliente">> >>))
    /\ pc' = "agent"
    /\ node' = route_entry([state EXCEPT !.messages = messages'])
    /\ UNCHANGED <<authenticated, client_data, auth_attempts, current_agent,
                   should_end, tool_vars, env_vars, file_vars, fn_vars, session_vars, llm_vars>>

UserTurn == UserTurnUpTo(MaxMsgs)

\* _agent_node: get_llm() raises when the credentials are missing, outside
\* the try block, and the exception leaves graph.invoke
AgentRaises ==
    /\ pc = "agent"
    /\ ~llm_ok
    /\ pc' = "raised"
    /\ UNCHANGED <<state_vars, tool_vars, env_vars, file_vars, fn_vars, session_vars, node,
                   llm_vars>>

\* the caller's except clause around graph.invoke: the CLI gives up when the
\* first call fails and goes on with its loop when a later one does; the chat
\* UI goes on in both cases.  The caller's state is the one it passed in.
CallerCatches ==
    /\ pc = "raised"
    /\ pc' = (IF caller = "cli" /\ messages = <<>> THEN "exited" ELSE "caught")
    /\ UNCHANGED <<state_vars, tool_vars, env_vars, file_vars, fn_vars, session_vars, node,
                   llm_vars>>

\* an agent node and the conditional edge should_continue after it; answers
\* are the answers of the model backend that are explored.  The backend is
\* called with the agent's prompt followed by state["messages"]; llm_input
\* keeps the latter
AgentStepOn(answers) ==
    /\ pc = "agent"
    /\ llm_ok
    /\ NodeRuns < RECURSION_LIMIT
    /\ llm_input' = state.messages
    /\ \E answer \in answers :
          LET st == merge_update(state, _agent_node_update(answer))
          IN /\ SetState(st)
             /\ llm_raised' = answer.raises
             /\ IF should_continue(st) = "tools"
                THEN pc' = "tools" /\ idx' = 1
                ELSE pc' = "returned" /\ idx' = 0
    /\ UNCHANGED <<node, tool_messages, state_updates, tool_raised, env_vars, file_vars, fn_vars,
                   session_vars>>

\* the request_limit_increase requests of an answer of the backend
LimitRequests(answer) ==
    IF answer.raises THEN 0
    ELSE Cardinality({k \in DOMAIN answer.response.tool_calls :
                         answer.response.tool_calls[k].name
                            = "request_limit_increase"})

\* the backend is taken to ask for limit increases as long as the records
\* they can add fit in a request log of MaxLogRows records
AgentStep ==
    AgentStepOn({answer \in LLMInvoke(messages) :
                    Len(solicitacoes_csv) + LimitRequests(answer)
                       <= MaxLogRows})

\* the three files as the tools take them
Files ==
    [clientes |-> clientes_csv, score_limite |-> score_limite_csv,
     solicitacoes |-> solicitacoes_csv]

\* tool = TOOL_MAP.get(tool_name); tool.invoke(tool_args): what the call of
\* a registered name can do, the tool registered being the tool itself or a
\* mock
RegisteredInvoke(tool_call) ==
    IF registry[tool_call.name] = "fake_tool"
    THEN {[raises |-> o.raises, result |-> o.result, files |-> Files] :
             o \in fake_tool(tool_call.name)}
    ELSE {ToolInvoke(tool_call.name, tool_call.args, Files, env) :
             env \in ToolEnvs(tool_call.name)}

\* tool_node: one iteration of the loop over the requests of the last
\* message, the call of the tool with what it does to the files included
ToolCallStep ==
    /\ pc = "tools"
    /\ idx = 1 => NodeRuns < RECURSION_LIMIT
    /\ LET calls == messages[Len(messages)].tool_calls IN
       /\ idx <= Len(calls)
       /\ \E outcome \in (IF calls[idx].name \in DOMAIN registry
                           THEN RegisteredInvoke(calls[idx])
                           ELSE {[raises |-> FALSE, result |-> <<>>,
                                  files |-> Files]}) :
             LET acc == tool_node_call(calls[idx], outcome, state,
                            [tool_messages |-> tool_messages,
                             state_updates |-> state_updates])
             IN /\ tool_messages' = acc.tool_messages
                /\ state_updates' = acc.state_updates
                /\ tool_raised' = Append(tool_raised, outcome.raises)
                /\ clientes_csv' = outcome.files.clientes
                /\ solicitacoes_csv' = outcome.files.solicitacoes
       /\ idx' = idx + 1
    /\ UNCHANGED <<state_vars, env_vars, score_limite_csv, inflight, fn_vars,
                   session_vars, pc, node, llm_vars>>

\* tool_node returns; the graph merges its update and routes to the agent
ToolReturn ==
    /\ pc = "tools"
    /\ idx > Len(messages[Len(messages)].tool_calls)
    /\ LET st == merge_update(state,
                     DictSet(state_updates, "messages", tool_messages))
       IN /\ SetState(st)
          /\ node' = route_after_tools(st)
    /\ pc' = "agent"
    /\ idx' = 0
    /\ tool_messages' = <<>>
    /\ state_updates' = <<>>
    /\ tool_raised' = <<>>
    /\ UNCHANGED <<env_vars, file_vars, fn_vars, session_vars, llm_vars>>

\* input() raises EOFError or KeyboardInterrupt (the input ends, the user
\* presses Ctrl-C): the CLI breaks out of its loop and main() returns, with
\* should_end as it is
InputInterrupted ==
    /\ caller = "cli"
    /\ pc \in {"returned", "caught"}
    /\ LoopCondition(state)
    /\ pc' = "exited"
    /\ UNCHANGED <<state_vars, tool_vars, env_vars, file_vars, fn_vars, session_vars, node,
                   llm_vars>>

\* the CLI leaves its loop and ends once should_end is set
LoopExit ==
    /\ caller = "cli"
    /\ pc \in {"returned", "caught"}
    /\ ~LoopCondition(state)
    /\ pc' = "exited"
    /\ UNCHANGED <<state_vars, tool_vars, env_vars, file_vars, fn_vars, session_vars, node,
                   llm_vars>>

\* the chat UI offers 'Nova conversa' once should_end is set: the session's
\* state is deleted and the script starts over with a state made by
\* _get_initial_state and an empty message list
NewConversation ==
    /\ caller = "app"
    /\ pc \in {"returned", "caught"}
    /\ DictGet(state, "should_end", FALSE)
    /\ SetState(_get_initial_state @@ [messages |-> <<>>])
    /\ pc' = "start"
    /\ node' = "START"
    /\ llm_raised' = FALSE
    /\ llm_input' = <<>>
    /\ UNCHANGED <<tool_vars, env_vars, file_vars, fn_vars, session_vars>>

Next ==
    \/ BuildGraph
    \/ FirstInvoke
    \/ UserTurn
    \/ AgentRaises
    \/ CallerCatches
    \/ AgentStep
    \/ ToolCallStep
    \/ ToolReturn
    \/ InputInterrupted
    \/ LoopExit
    \/ NewConversation

Spec == Init /\ [][Next]_vars

\* The same program on longer conversations, with a model backend that
\* requests authenticate_client and end_conversation only
UserTurnDeep == UserTurnUpTo(MaxDeepMsgs)

AgentStepDeep == AgentStepOn(LLMInvokeDeep(messages))

NextDeep ==
    \/ BuildGraph
    \/ FirstInvoke
    \/ UserTurnDeep
    \/ AgentRaises
    \/ CallerCatches
    \/ AgentStepDeep
    \/ ToolCallStep
    \/ ToolReturn
    \/ InputInterrupted
    \/ LoopExit
    \/ NewConversation

SpecDeep == Init /\ [][NextDeep]_vars

-----------------------------------------------------------------------------
\* graph.invoke on its own: one call, on a state as the caller passes it,
\* with a model backend that may go on requesting tools answer after answer
\* (SpecTurn).  fn_in keeps the state the caller passed

\* the histories the caller passes: none (the CLI's first call), or the
\* answer of the first call followed by the user's message
TurnHistories ==
    {<<>>}
    \cup {<<AIMessage(t, <<>>),
            HumanMessage(<< <<"mensagem do cliente">> >>)>> :
              t \in PlainTexts \cup {FALLBACK_TEXT}}

\* the backend of a long turn: a text, a failure, or (in at most
\* MaxTurnRequests answers of the call, after which it is taken to answer
\* without requests) one request for a transfer tool of the agent at work:
\* triage hands over to credit and credit back to triage
LLMInvokeTurn(history, agent) ==
    {[raises |-> FALSE, response |-> AIMessage(t, <<>>)] : t \in PlainTexts}
    \cup {[raises |-> TRUE, response |-> <<>>]}
    \cup (IF AnswersOfCall(history, Len(history)) < MaxTurnRequests
          THEN {[raises |-> FALSE,
                 response |-> AIMessage(<<>>, b)] :
                   b \in Batches({IF agent = "triage" THEN "transfer_to_credit"
                                  ELSE "transfer_to_triage"}, 1, history)}
          ELSE {})

InitTurn ==
    /\ messages \in TurnHistories
    /\ authenticated = _get_initial_state.authenticated
    /\ client_data = _get_initial_state.client_data
    /\ auth_attempts = _get_initial_state.auth_attempts
    /\ current_agent = _get_initial_state.current_agent
    /\ should_end = _get_initial_state.should_end
    /\ pc = "agent"
    /\ node = route_entry(state)
    /\ idx = 0
    /\ tool_messages = <<>>
    /\ state_updates = <<>>
    /\ caller \in {"cli", "app"}
    /\ llm_ok \in BOOLEAN
    /\ llm_raised = FALSE
    /\ tool_raised = <<>>
    /\ heap = <<>>
    /\ session = [s \in Sessions |-> 0]
    /\ llm_input = <<>>
    /\ fn_in = [state |-> state]
    /\ fn_out = <<>>
    /\ InitFiles

AgentStepTurn == AgentStepOn(LLMInvokeTurn(messages, node))

\* the graph library ends the call with its recursion error when another
\* node is due after RECURSION_LIMIT node runs; nothing of the call's work on
\* the state reaches the caller, whose state is still the one it passed
RecursionLimitRaises ==
    /\ pc \in {"agent", "tools"}
    /\ pc = "tools" => idx = 1
    /\ NodeRuns >= RECURSION_LIMIT
    /\ SetState(fn_in.state)
    /\ pc' = "raised"
    /\ idx' = 0
    /\ UNCHANGED <<tool_messages, state_updates, tool_raised, env_vars,
                   file_vars, fn_vars, session_vars, node, llm_vars>>

NextTurn ==
    \/ AgentRaises
    \/ AgentStepTurn
    \/ ToolCallStep
    \/ ToolReturn
    \/ RecursionLimitRaises
    \/ CallerCatches

SpecTurn == InitTurn /\ [][NextTurn]_vars

\* graph.invoke runs its nodes one after the other until the graph ends,
\* a node raises or the library stops it: a step that can be taken is taken
SpecTurnLive ==
    /\ SpecTurn
    /\ WF_vars(AgentStepTurn)
    /\ WF_vars(AgentRaises)
    /\ WF_vars(ToolCallStep)
    /\ WF_vars(ToolReturn)
    /\ WF_vars(RecursionLimitRaises)
    /\ WF_vars(CallerCatches)

-----------------------------------------------------------------------------
\* tool_node on its own: the function is called on a state whose last message
\* carries a batch of requests, with tools that return any text of their
\* family (src/tests/shared/test_graph.py patches TOOL_MAP the same way)

\* the values of new_limit a request can carry: a number other than the one
\* the result text prints, a numeric string, a string that is no number, None
NewLimitArgs ==
    {[num |-> 8000000], [str |-> "7000.00"], [str |-> "abc"], None}

\* the requests of the batch: every registered tool, the four transfer tools
\* of TRANSFER_MAP among them, and names that are not registered; for
\* request_limit_increase, every value of new_limit and the request without
\* the argument
RulesCalls(id) ==
    {ToolCall(t, CHOOSE a \in ToolArgs(t) : TRUE, id) :
        t \in {"authenticate_client", "end_conversation",
               "transfer_to_credit", "transfer_to_exchange",
               "transfer_to_interview", "transfer_to_triage",
               "query_credit_limit", "get_exchange_rate",
               "calculate_credit_score",
               "update_client_score"} \cup UnknownTools}
    \cup {ToolCall("request_limit_increase",
                    [cpf |-> CPF_PLAIN, new_limit |-> v], id) :
              v \in NewLimitArgs}
    \cup {ToolCall("request_limit_increase", [cpf |-> CPF_PLAIN], id)}

RulesBatches ==
    UNION {{b \in [1..n -> UNION {RulesCalls(20 + k) : k \in 1..n}] :
               \A k \in 1..n : b[k].id = 20 + k} : n \in 1..MaxRulesBatch}

\* the client records a conversation can hold: none, the parsed row, the raw
\* text of a row that did not parse
RulesClientData ==
    {None,
     [nome |-> "Joao Silva", cpf |-> "12345678901",
      limite_credito |-> 5000000, score |-> 650],
     [raw |-> CHOOSE t \in return_value("authenticate_client") :
                 StartsWith(t, "SUCESSO") /\ Contains(t, "n/d")]}

InitRulesOn(tools) ==
    /\ \E b \in RulesBatches :
          messages = <<HumanMessage(<< <<"mensagem do cliente">> >>),
                       AIMessage(<<>>, b)>>
    /\ client_data \in RulesClientData
    /\ authenticated = (client_data # None)
    /\ auth_attempts = 1
    /\ current_agent = "interview"
    /\ should_end = FALSE
    /\ pc = "tools"
    /\ node = "interview"
    /\ idx = 1
    /\ tool_messages = <<>>
    /\ state_updates = <<>>
    /\ caller = "cli"
    /\ llm_ok = TRUE
    /\ llm_raised = FALSE
    /\ tool_raised = <<>>
    /\ heap = <<>>
    /\ session = [s \in Sessions |-> 0]
    /\ llm_input = <<messages[1]>>
    /\ fn_in = None
    /\ fn_out = <<>>
    /\ InitFilesOn([t \in tools |-> "fake_tool"], {CLIENTS_FIXTURE})

InitRules == InitRulesOn(TOOL_MAP)

NextRules ==
    \/ ToolCallStep
    \/ ToolReturn

SpecRules == InitRules /\ [][NextRules]_vars

\* tool_node on its own with a registry that lacks three of the names the
\* state-delta rules test for: TOOL_MAP is a module-level dict and the rules
\* go by TRANSFER_MAP and by literal names, not by the registry
TOOL_MAP_reduced ==
    TOOL_MAP \ {"end_conversation", "transfer_to_credit", "authenticate_client"}

InitRegistry == InitRulesOn(TOOL_MAP_reduced)

SpecRegistry == InitRegistry /\ [][NextRules]_vars

-----------------------------------------------------------------------------
\* tool_node on a batch of request_limit_increase requests, the tool being
\* the function of tools/credit.py at work on the three files (SpecCredit)

\* the CPF arguments: the first client's with dots and a dash, the second
\* client's, the client's whose score is in no band, nobody's
CreditCpfs == {CPF_FORMATTED, CPF_MARIA, CPF_CARLOS, CPF_NOBODY}

CreditCall(cpf, new_limit, id) ==
    [name |-> "request_limit_increase",
     args |-> [cpf |-> cpf, new_limit |-> [num |-> new_limit]], id |-> id]

CreditBatches ==
    UNION {{[k \in 1..n |-> CreditCall(ch[k][1], ch[k][2], 20 + k)] :
               ch \in [1..n -> CreditCpfs \X NewLimits]} :
           n \in 1..MaxCreditBatch}

\* the files at the start: the fixture's, or one of the two files read
\* missing or undecodable
CreditFiles ==
    {<<CLIENTS_FIXTURE, SCORE_LIMIT_FIXTURE>>,
     <<[status |-> "missing", rows |-> <<>>], SCORE_LIMIT_FIXTURE>>,
     <<[status |-> "corrupted", rows |-> <<>>], SCORE_LIMIT_FIXTURE>>,
     <<CLIENTS_FIXTURE, [status |-> "missing", rows |-> <<>>]>>,
     <<CLIENTS_FIXTURE, [status |-> "corrupted", rows |-> <<>>]>>}

\* the conversation is the first client's, authenticated, with the credit
\* agent, whose last answer requests a batch of limit increases
InitCredit ==
    /\ \E b \in CreditBatches :
          messages = <<HumanMessage(<< <<"mensagem do cliente">> >>),
                       AIMessage(<<>>, b)>>
    /\ client_data = [nome |-> "Joao Silva", cpf |-> "12345678901",
                      limite_credito |-> 5000000, score |-> 650]
    /\ authenticated = TRUE
    /\ auth_attempts = 0
    /\ current_agent = "credit"
    /\ should_end = FALSE
    /\ pc = "tools"
    /\ node = "credit"
    /\ idx = 1
    /\ tool_messages = <<>>
    /\ state_updates = <<>>
    /\ caller = "cli"
    /\ llm_ok = TRUE
    /\ llm_raised = FALSE
    /\ tool_raised = <<>>
    /\ heap = <<>>
    /\ session = [s \in Sessions |-> 0]
    /\ llm_input = <<messages[1]>>
    /\ fn_in = None
    /\ fn_out = <<>>
    /\ registry = [t \in TOOL_MAP |-> "tool"]
    /\ \E f \in CreditFiles : clientes_csv = f[1] /\ score_limite_csv = f[2]
    /\ solicitacoes_csv = <<>>
    /\ inflight = [s \in Sessions |-> [pc |-> "idle"]]

\* tool_node: one iteration of the loop, for a request_limit_increase
\* request; tool.invoke is the function of tools/credit.py, which reads and
\* writes the files.  fn_in and fn_out keep the call: its arguments, the
\* files before it, what open() did, and the text it returned
ToolCallStepCredit ==
    /\ pc = "tools"
    /\ LET calls == messages[Len(messages)].tool_calls IN
       /\ idx <= Len(calls)
       /\ calls[idx].name = "request_limit_increase"
       /\ \E io \in OpenOutcomes :
             LET r == request_limit_increase_invoke(
                          calls[idx].args.cpf,
                          PyFloat(calls[idx].args.new_limit), Files, io)
                 acc == tool_node_call(calls[idx],
                            [raises |-> r.raises, result |-> r.result], state,
                            [tool_messages |-> tool_messages,
                             state_updates |-> state_updates])
             IN /\ tool_messages' = acc.tool_messages
                /\ state_updates' = acc.state_updates
                /\ tool_raised' = Append(tool_raised, r.raises)
                /\ clientes_csv' = r.files.clientes
                /\ solicitacoes_csv' = r.files.solicitacoes
                /\ fn_in' = [fn |-> "request_limit_increase",
                             cpf |-> calls[idx].args.cpf,
                             new_limit |-> PyFloat(calls[idx].args.new_limit),
                             files |-> Files, io |-> io]
                /\ fn_out' = r.result
       /\ idx' = idx + 1
    /\ UNCHANGED <<state_vars, env_vars, session_vars, pc, node, llm_vars,
                   score_limite_csv, inflight>>

NextCredit ==
    \/ ToolCallStepCredit
    \/ ToolReturn

SpecCredit == InitCredit /\ [][NextCredit]_vars

-----------------------------------------------------------------------------
\* Two conversations calling tools at overlapping times (SpecRace): each
\* makes one call, of request_limit_increase or of authenticate_client.  The
\* functions take no lock.  In SpecRace the client file is the bytes it
\* holds, and a step is one access of a call to a file: a read of the open
\* client file, which gets the bytes from where the call's last read ended
\* to the end of the file, the append to the request log, the open of the
\* client file for writing, which empties it, and the write of the call's
\* buffer when the file is closed, which starts at the first byte of the
\* file and leaves what the file holds beyond the buffer's length.  Between
\* two steps of a call the other conversation's call can run

\* the line ends: the fixture's lines end with LF, the lines csv writes with
\* CR LF
LF == "LF"

CR == "CR"

\* the characters of a literal
Chars(s) == [i \in 1..Len(s) |-> SubSeq(s, i, i)]

\* data/clientes.csv as the credit_csvs fixture writes it, byte by byte; C3
\* A3 are the two bytes of the a with a tilde
CLIENTS_BYTES ==
    Chars("cpf,data_nascimento,nome,limite_credito,score") \o <<LF>>
        \o Chars("12345678901,15/03/1990,Jo") \o <<"C3", "A3">>
        \o Chars("o Silva,5000.00,650") \o <<LF>>
        \o Chars("98765432100,22/07/1985,Maria Santos,8000.00,780") \o <<LF>>

\* encoding="utf-8" of a file open for writing: the bytes of a text ("a~" is
\* the a with a tilde)
RECURSIVE Encode(_)
Encode(str) ==
    IF str = <<>> THEN <<>>
    ELSE IF Len(str) = 1
    THEN IF str[1] = "a~" THEN <<"C3", "A3">> ELSE str
    ELSE Encode(SubSeq(str, 1, Len(str) \div 2))
            \o Encode(SubSeq(str, Len(str) \div 2 + 1, Len(str)))

\* encoding="utf-8" of a file open for reading: the bytes of one read are
\* those of a text (or the read raises UnicodeDecodeError), and the text
Decodable(bytes) ==
    \A n \in 1..Len(bytes) :
        /\ bytes[n] = "C3" => n < Len(bytes) /\ bytes[n + 1] = "A3"
        /\ bytes[n] = "A3" => n > 1 /\ bytes[n - 1] = "C3"

Decode(bytes) ==
    RemoveChar([n \in 1..Len(bytes) |->
                   IF bytes[n] = "C3" THEN "a~" ELSE bytes[n]], "A3")

\* newline=None of a file open for reading: CR LF and CR are read as LF
UniversalNewlines(str) ==
    LET at == [n \in 1..Len(str) |-> <<n, str[n]>>]
        kept == SelectSeq(at, LAMBDA c : ~(/\ c[2] = LF
                                           /\ c[1] > 1
                                           /\ str[c[1] - 1] = CR))
    IN [n \in 1..Len(kept) |-> IF kept[n][2] = CR THEN LF ELSE kept[n][2]]

\* str.split(sep)
RECURSIVE Split(_, _)
Split(str, sep) ==
    LET k == IndexOf(str, sep, 1)
    IN IF k = 0 THEN <<str>>
       ELSE <<SubSeq(str, 1, k - 1)>>
               \o Split(SubSeq(str, k + 1, Len(str)), sep)

\* the rows csv.reader makes of the lines of a text: the fields of a line,
\* no field for an empty line
RowsOfText(text) ==
    LET pieces == Split(text, LF)
        lines == IF pieces[Len(pieces)] = <<>>
                 THEN SubSeq(pieces, 1, Len(pieces) - 1)
                 ELSE pieces
    IN [n \in 1..Len(lines) |->
           IF lines[n] = <<>> THEN <<>> ELSE Split(lines[n], ",")]

\* csv.DictReader(f) of _read_clients and of authenticate_client.  pos is
\* what the reader is at when it asks the file for its next line:
\* "fieldnames" in reader.fieldnames of _read_clients, "first" in the
\* fieldnames its first row asks for, "row" in the read of a row, "zip" in
\* the fieldnames that the making of a row's dict asks for when there are
\* none yet; "done" once the rows are all read, "error" when the read
\* raised.  offset is how far into the file the reads got, asked whether
\* reader.fieldnames of _read_clients got field names, rows the dicts made
DictReader(pos) ==
    [pos |-> pos, offset |-> 0, has_fieldnames |-> FALSE,
     fieldnames |-> <<>>, asked |-> FALSE, held |-> <<>>, rows |-> <<>>]

\* dict(zip(fieldnames, row)) with restkey and restval None: short tells how
\* many of the keys have a field of the row (the others have None), rest are
\* the fields of the row beyond the keys (under the key None)
DictOfRow(fieldnames, row) ==
    [keys |-> fieldnames,
     vals |-> [k \in 1..Len(fieldnames) |->
                  IF k <= Len(row) THEN row[k] ELSE <<>>],
     short |-> IF Len(row) < Len(fieldnames) THEN Len(row)
               ELSE Len(fieldnames),
     rest |-> SubSeq(row, Len(fieldnames) + 1, Len(row))]

\* the reader gets row as its next line
DictReaderRow(rd, row) ==
    CASE rd.pos = "fieldnames" ->
            [rd EXCEPT !.has_fieldnames = TRUE, !.fieldnames = row,
                       !.asked = TRUE, !.pos = "row"]
      [] rd.pos = "first" ->
            [rd EXCEPT !.has_fieldnames = TRUE, !.fieldnames = row,
                       !.pos = "row"]
      [] rd.pos = "row" ->
            IF row = <<>> THEN rd
            ELSE IF rd.has_fieldnames
            THEN [rd EXCEPT !.rows = Append(@, DictOfRow(rd.fieldnames, row))]
            ELSE [rd EXCEPT !.pos = "zip", !.held = row]
      [] rd.pos = "zip" ->
            [rd EXCEPT !.has_fieldnames = TRUE, !.fieldnames = row,
                       !.rows = Append(@, DictOfRow(row, rd.held)),
                       !.pos = "row"]
      [] OTHER -> rd

\* the reader finds the file at its end (StopIteration): no field names for
\* now, or no more rows; zip(None, row) raises TypeError
DictReaderStop(rd) ==
    CASE rd.pos = "fieldnames" -> [rd EXCEPT !.pos = "first"]
      [] rd.pos = "first" -> [rd EXCEPT !.pos = "row"]
      [] rd.pos = "row" -> [rd EXCEPT !.pos = "done"]
      [] rd.pos = "zip" -> [rd EXCEPT !.pos = "error"]
      [] OTHER -> rd

\* the reader takes the rows of one read one after the other
RECURSIVE DictReaderRows(_, _)
DictReaderRows(rd, rows) ==
    IF rows = <<>> THEN rd
    ELSE DictReaderRows(DictReaderRow(rd, Head(rows)), Tail(rows))

\* one read of the open file bytes by the reader: the bytes beyond offset,
\* decoded and cut into rows, or the end of the file
ReadBytes(rd, bytes) ==
    LET chunk == SubSeq(bytes, rd.offset + 1, Len(bytes))
        at == [rd EXCEPT !.offset = IF Len(bytes) > @ THEN Len(bytes) ELSE @]
    IN IF chunk = <<>> THEN DictReaderStop(at)
       ELSE IF ~Decodable(chunk) THEN [at EXCEPT !.pos = "error"]
       ELSE DictReaderRows(at, RowsOfText(UniversalNewlines(Decode(chunk))))

\* the position of key name in the dict d, 0 if it has none
KeyOf(d, name) ==
    LET ks == {k \in 1..Len(d.keys) : d.keys[k] = name}
    IN IF ks = {} THEN 0 ELSE CHOOSE k \in ks : \A j \in ks : j <= k

\* d[name] is a text: d has the key and its value is not None
HasText(d, name) == KeyOf(d, name) \in 1..d.short

\* d[name]
TextOf(d, name) == d.vals[KeyOf(d, name)]

\* _find_client on the dicts of the reader: the position of the first whose
\* CPF is cpf_clean, 0 for None, -1 when row["cpf"].strip() raises (KeyError
\* without the key, AttributeError on None)
RECURSIVE _find_client_dict(_, _, _)
_find_client_dict(rows, cpf_clean, i) ==
    IF i > Len(rows) THEN 0
    ELSE IF ~HasText(rows[i], Chars("cpf")) THEN -1
    ELSE IF RemoveChar(RemoveChar(Strip(TextOf(rows[i], Chars("cpf"))), "."),
                       "-") = cpf_clean
    THEN i
    ELSE _find_client_dict(rows, cpf_clean, i + 1)

\* the digits of a natural number
RECURSIVE DigitsOf(_)
DigitsOf(n) ==
    LET digit == <<"0", "1", "2", "3", "4", "5", "6", "7", "8", "9">>
    IN IF n < 10 THEN <<digit[n + 1]>>
       ELSE DigitsOf(n \div 10) \o <<digit[(n % 10) + 1]>>

\* f"{x:.2f}", character by character
Fmt2fChars(x) ==
    LET c == (x + 5) \div 10
    IN DigitsOf(c \div 100) \o <<".">> \o DigitsOf((c % 100) \div 10)
           \o DigitsOf(c % 10)

\* the line csv.writer writes for the fields of a row
RECURSIVE LineOf(_)
LineOf(fields) ==
    IF fields = <<>> THEN <<CR, LF>>
    ELSE IF Len(fields) = 1 THEN fields[1] \o <<CR, LF>>
    ELSE fields[1] \o <<",">> \o LineOf(Tail(fields))

\* DictWriter._dict_to_list: the dict has no key outside fieldnames (or
\* writerows raises ValueError), and its fields in the order of fieldnames,
\* empty for None and for a key the dict has not
Writable(d, fieldnames) ==
    /\ d.rest = <<>>
    /\ \A k \in 1..Len(d.keys) :
          \E j \in 1..Len(fieldnames) : fieldnames[j] = d.keys[k]

_dict_to_list(d, fieldnames) ==
    [j \in 1..Len(fieldnames) |->
        IF HasText(d, fieldnames[j]) THEN TextOf(d, fieldnames[j]) ELSE <<>>]

\* how many of rows writerows writes before a row that is not writable
RECURSIVE WritableRows(_, _, _)
WritableRows(rows, fieldnames, i) ==
    IF i > Len(rows) \/ ~Writable(rows[i], fieldnames) THEN i - 1
    ELSE WritableRows(rows, fieldnames, i + 1)

\* what writeheader and writerows leave in the buffer of the file: the
\* header and the first n rows
RECURSIVE WrittenText(_, _, _)
WrittenText(rows, fieldnames, n) ==
    IF n = 0 THEN LineOf(fieldnames)
    ELSE WrittenText(rows, fieldnames, n - 1)
            \o LineOf(_dict_to_list(rows[n], fieldnames))

\* the calls: an increase for the first client, one for the second, one that
\* is rejected, one that is not above the current limit, and the
\* authentication of the second client
RaceCalls ==
    {[fn |-> "request_limit_increase", cpf |-> c[1], new_limit |-> c[2]] :
        c \in {<<CPF_FORMATTED, 7000000>>, <<CPF_MARIA, 10000000>>,
               <<CPF_FORMATTED, 10000000>>, <<CPF_MARIA, 8000000>>}}
    \cup {[fn |-> "authenticate_client", cpf |-> CPF_MARIA,
           birth_date |-> <<"22/07/1985">>]}

\* what the rewrite of the client file can do: it succeeds, the file does
\* not open, or the file opens and the writing fails before anything is in
\* the buffer (kept -1), after the header (kept 0) or after the header and
\* the first row (kept 1)
RewriteOutcomes ==
    {[write |-> "ok", kept |-> 0], [write |-> "open_fails", kept |-> 0]}
    \cup {[write |-> "write_fails", kept |-> k] : k \in {-1, 0, 1}}

\* the call of conversation s is over: it returned result or raised
Returned(s, result) ==
    [inflight[s] EXCEPT !.pc = "done", !.result = result]

Raised(s) ==
    [inflight[s] EXCEPT !.pc = "done", !.raises = TRUE]

\* request_limit_increase once _read_clients has returned (lines 121 to
\* 158): the client is looked for in the dicts the reader made, the band
\* file is read and the request is decided; what the call read stays in its
\* locals
Decided(call) ==
    LET rows == call.rd.rows
        i == _find_client_dict(rows, _normalize_cpf(call.cpf), 1)
        client == [cpf |-> TextOf(rows[i], Chars("cpf")),
                   limite_credito |->
                       Join(TextOf(rows[i], Chars("limite_credito"))),
                   score |-> Join(TextOf(rows[i], Chars("score")))]
        d == _limit_decision(call.cpf, call.new_limit,
                             [status |-> "ok", rows |-> <<client>>],
                             score_limite_csv)
    IN IF i = 0 THEN [call EXCEPT !.pc = "done", !.result = ERRO_CLIENTE]
       ELSE IF \/ i < 0
               \/ ~HasText(rows[i], Chars("limite_credito"))
               \/ ~HasText(rows[i], Chars("score"))
               \/ d.status = "levanta"
       THEN [call EXCEPT !.pc = "done", !.raises = TRUE]
       ELSE [call EXCEPT
                !.pc = IF d.status \in {"aprovado", "rejeitado"} THEN "log"
                       ELSE "done",
                !.d = d, !.i = i, !.result = d.result]

\* the loop of authenticate_client over the dicts the reader made (lines 41
\* to 51): the first row that raises or matches decides; <<>> when none does
RECURSIVE _first_match_dict(_, _, _, _)
_first_match_dict(rows, i, cpf_clean, birth_clean) ==
    IF i > Len(rows) THEN <<>>
    ELSE LET row == rows[i]
             text(name) == IF HasText(row, Chars(name))
                           THEN Join(TextOf(row, Chars(name))) ELSE "None"
         IN IF \/ ~HasText(row, Chars("cpf"))
               \/ ~HasText(row, Chars("data_nascimento"))
            THEN ERRO_SISTEMA_UNEXPECTED
            ELSE IF /\ RemoveChar(RemoveChar(
                           Strip(TextOf(row, Chars("cpf"))), "."), "-")
                       = cpf_clean
                    /\ <<Join(Strip(TextOf(row, Chars("data_nascimento"))))>>
                       = birth_clean
            THEN IF \E name \in {"nome", "limite_credito", "score"} :
                        KeyOf(row, Chars(name)) = 0
                 THEN ERRO_SISTEMA_UNEXPECTED
                 ELSE SUCESSO_TEXT([nome |-> text("nome"),
                                    cpf |-> TextOf(row, Chars("cpf")),
                                    limite_credito |-> text("limite_credito"),
                                    score |-> text("score")])
            ELSE _first_match_dict(rows, i + 1, cpf_clean, birth_clean)

\* the call after a read of the client file: authenticate_client returns at
\* the first row that decides, or when the rows are all read;
\* request_limit_increase goes on once _read_clients returned, or returns
\* the text of its except clause
AfterRead(call) ==
    LET found == _first_match_dict(call.rd.rows, 1,
                                   _normalize_cpf(call.cpf),
                                   Strip(call.birth_date))
    IN IF call.fn = "authenticate_client"
       THEN IF found # <<>> THEN [call EXCEPT !.pc = "done", !.result = found]
            ELSE IF call.rd.pos = "error"
            THEN [call EXCEPT !.pc = "done",
                              !.result = ERRO_SISTEMA_UNEXPECTED]
            ELSE IF call.rd.pos = "done"
            THEN [call EXCEPT !.pc = "done", !.result = FALHA_NO_MATCH]
            ELSE call
       ELSE IF call.rd.pos = "error"
       THEN [call EXCEPT !.pc = "done", !.result = ERRO_SISTEMA_CONSULTA]
       ELSE IF call.rd.pos = "done" THEN Decided(call)
       ELSE call

\* the call starts: it opens the client file and its reader reads for the
\* first time (credit.py lines 18 to 20, auth.py lines 39 to 41);
\* authenticate_client checks the CPF before that
ReadClients(s) ==
    /\ inflight[s].pc = "idle"
    /\ \E call \in RaceCalls :
          LET cpf_clean == _normalize_cpf(call.cpf)
              started ==
                  [pc |-> "read", fn |-> call.fn, cpf |-> call.cpf,
                   new_limit |-> IF call.fn = "request_limit_increase"
                                 THEN call.new_limit ELSE 0,
                   birth_date |-> IF call.fn = "authenticate_client"
                                  THEN call.birth_date ELSE <<>>,
                   rd |-> ReadBytes(
                              DictReader(IF call.fn = "authenticate_client"
                                         THEN "first" ELSE "fieldnames"),
                              clientes_csv.bytes),
                   io |-> [log |-> TRUE, write |-> "ok", kept |-> 0],
                   d |-> [status |-> "retorna"], i |-> 0, buffer |-> <<>>,
                   written |-> FALSE, result |-> <<>>, raises |-> FALSE]
          IN inflight' =
                [inflight EXCEPT ![s] =
                    IF /\ call.fn = "authenticate_client"
                       /\ (Len(cpf_clean) # 11 \/ ~IsDigit(cpf_clean))
                    THEN [started EXCEPT !.pc = "done", !.result = FALHA_CPF,
                                         !.rd = DictReader("first")]
                    ELSE AfterRead(started)]
    /\ UNCHANGED <<state_vars, tool_vars, env_vars, fn_vars, session_vars,
                   llm_vars, pc, node, clientes_csv, score_limite_csv,
                   solicitacoes_csv>>

\* the reader of the call reads the file again (credit.py lines 20 and 21,
\* auth.py line 41): it gets what was written beyond the place its last
\* read ended at, or finds the file at its end
ReadClientsAgain(s) ==
    /\ inflight[s].pc = "read"
    /\ inflight' =
          [inflight EXCEPT ![s] =
              AfterRead([inflight[s] EXCEPT
                            !.rd = ReadBytes(@, clientes_csv.bytes)])]
    /\ UNCHANGED <<state_vars, tool_vars, env_vars, fn_vars, session_vars,
                   llm_vars, pc, node, clientes_csv, score_limite_csv,
                   solicitacoes_csv>>

\* lines 160 to 173: the record is appended to the request log, or the log
\* does not open and the call returns
AppendRequest(s) ==
    /\ inflight[s].pc = "log"
    /\ \E log \in BOOLEAN :
          IF log
          THEN /\ solicitacoes_csv' =
                     Append(solicitacoes_csv, _request_row(inflight[s].d))
               /\ inflight' =
                     [inflight EXCEPT ![s] =
                         IF inflight[s].d.status = "aprovado"
                         THEN [@ EXCEPT !.pc = "write"]
                         ELSE Returned(s, _decided_text(inflight[s].d,
                                                        FALSE))]
          ELSE /\ solicitacoes_csv' = solicitacoes_csv
               /\ inflight' =
                     [inflight EXCEPT ![s] =
                         [Returned(s, ERRO_SISTEMA_REGISTRO) EXCEPT
                             !.io.log = FALSE]]
    /\ UNCHANGED <<state_vars, tool_vars, env_vars, fn_vars, session_vars,
                   llm_vars, pc, node, clientes_csv, score_limite_csv>>

\* lines 176 to 182: client["limite_credito"] is set, the client file is
\* opened for writing, and writeheader and writerows fill the buffer of the
\* file.  The file does not open and is left as it is, or it opens and is
\* empty from then on.  With fieldnames None writeheader raises at once;
\* writerows raises at a row that is not writable, or the writing fails as
\* io tells; the buffer holds what was written before, and written tells
\* whether that is all.  With nothing in the buffer the file is closed empty
\* and the call returns
OpenClientsForWriting(s) ==
    /\ inflight[s].pc = "write"
    /\ \E io \in RewriteOutcomes :
          LET call == [inflight[s] EXCEPT !.io.write = io.write,
                                          !.io.kept = io.kept]
              fieldnames == call.rd.fieldnames
              key == KeyOf(call.rd.rows[call.i], Chars("limite_credito"))
              rows == [call.rd.rows EXCEPT
                          ![call.i].vals[key] = Fmt2fChars(call.new_limit)]
              writable == WritableRows(rows, fieldnames, 1)
              kept == IF io.write = "ok" \/ writable < io.kept THEN writable
                      ELSE IF io.kept < Len(rows) THEN io.kept
                      ELSE Len(rows) - 1
              buffer == IF ~call.rd.asked \/ kept < 0 THEN <<>>
                        ELSE Encode(WrittenText(rows, fieldnames, kept))
          IN IF io.write = "open_fails"
             THEN /\ clientes_csv' = clientes_csv
                  /\ inflight' =
                        [inflight EXCEPT ![s] =
                            [call EXCEPT
                                !.pc = "done",
                                !.result = _decided_text(call.d, FALSE)]]
             ELSE /\ clientes_csv' = [clientes_csv EXCEPT !.bytes = <<>>]
                  /\ inflight' =
                        [inflight EXCEPT ![s] =
                            IF buffer = <<>>
                            THEN [call EXCEPT
                                     !.pc = "done",
                                     !.result = _decided_text(call.d, FALSE)]
                            ELSE [call EXCEPT
                                     !.pc = "writing", !.buffer = buffer,
                                     !.written = (kept = Len(rows))]]
    /\ UNCHANGED <<state_vars, tool_vars, env_vars, fn_vars, session_vars,
                   llm_vars, pc, node, score_limite_csv, solicitacoes_csv>>

\* lines 179 to 198: the file is closed, and the buffer is written over the
\* first bytes of the file, which keeps what it holds beyond them; then the
\* call returns
RewriteClients(s) ==
    /\ inflight[s].pc = "writing"
    /\ clientes_csv' =
          [clientes_csv EXCEPT !.bytes =
              inflight[s].buffer
                  \o SubSeq(@, Len(inflight[s].buffer) + 1, Len(@))]
    /\ inflight' =
          [inflight EXCEPT ![s] =
              Returned(s, _decided_text(inflight[s].d, inflight[s].written))]
    /\ UNCHANGED <<state_vars, tool_vars, env_vars, fn_vars, session_vars,
                   llm_vars, pc, node, score_limite_csv, solicitacoes_csv>>

InitRace ==
    /\ messages = <<>>
    /\ authenticated = _get_initial_state.authenticated
    /\ client_data = _get_initial_state.client_data
    /\ auth_attempts = _get_initial_state.auth_attempts
    /\ current_agent = _get_initial_state.current_agent
    /\ should_end = _get_initial_state.should_end
    /\ pc = "init"
    /\ node = "START"
    /\ idx = 0
    /\ tool_messages = <<>>
    /\ state_updates = <<>>
    /\ caller = "app"
    /\ llm_ok = TRUE
    /\ llm_raised = FALSE
    /\ tool_raised = <<>>
    /\ heap = <<>>
    /\ session = [s \in Sessions |-> 0]
    /\ llm_input = <<>>
    /\ fn_in = None
    /\ fn_out = <<>>
    /\ registry = [t \in TOOL_MAP |-> "tool"]
    /\ clientes_csv = [status |-> "ok", bytes |-> CLIENTS_BYTES]
    /\ score_limite_csv = SCORE_LIMIT_FIXTURE
    /\ solicitacoes_csv = <<>>
    /\ inflight = [s \in Sessions |-> [pc |-> "idle"]]

NextRace ==
    \E s \in Sessions :
        \/ ReadClients(s)
        \/ ReadClientsAgain(s)
        \/ AppendRequest(s)
        \/ OpenClientsForWriting(s)
        \/ RewriteClients(s)

SpecRace == InitRace /\ [][NextRace]_vars

-----------------------------------------------------------------------------
\* Functions called on their own, on inputs drawn from the sets below: the
\* entry of graph.invoke, an agent node with the edge after it, and
\* authenticate_client

\* the states graph.invoke can be given: the callers' states, and dicts
\* without current_agent (src/tests/shared/test_graph.py calls route_entry({}))
EntryStates ==
    {<<>>, [messages |-> <<>>], [authenticated |-> TRUE, should_end |-> FALSE]}
    \cup {[current_agent |-> a] : a \in agent_names}
    \cup {[_get_initial_state EXCEPT !.current_agent = a] : a \in agent_names}

\* what the backend can hand to an agent node: the answers of LLMInvoke, and
\* response objects that have no tool_calls attribute
AgentAnswers ==
    LLMInvokeOn({"authenticate_client", "transfer_to_credit"}, 1..MaxBatch,
                MaxMsgs,
                <<HumanMessage(<< <<"mensagem do cliente">> >>)>>)
    \cup {[raises |-> FALSE, response |-> [type |-> "ai", content |-> t]] :
             t \in PlainTexts}

\* the CPF arguments: plain, with dots and a dash, with blanks, of a second
\* client, of nobody, too short, too long, with a letter, empty, blank
AuthCpfs ==
    {CPF_PLAIN, CPF_FORMATTED,
     <<"1", "2", "3", " ", "4", "5", "6", " ", "7", "8", "9", " ", "0", "1">>,
     <<" ">> \o CPF_PLAIN \o <<" ">>,
     <<"9", "8", "7", "6", "5", "4", "3", "2", "1", "0", "0">>,
     <<"0", "0", "0", "0", "0", "0", "0", "0", "0", "0", "0">>,
     <<"1", "2", "3", "4", "5">>,
     CPF_PLAIN \o <<"2">>,
     <<"1", "2", "3", "4", "5", "6", "7", "8", "9", "0", "a">>,
     <<"1", "2", "3", ".", "4", "5", "6", ".", "7", "8", "9", "-", "0">>,
     <<>>, <<" ", ".", "-">>}

AuthBirthDates ==
    {<<"15/03/1990">>, <<" ", "15/03/1990", " ">>, <<"22/07/1985">>,
     <<"01/01/2000">>, <<>>}

\* the client files: the one of the tests, one whose CPF column is
\* formatted and whose dates are padded, one without rows, a missing one and
\* an undecodable one
ClientFiles ==
    {[status |-> "ok",
      rows |-> <<[cpf |-> CPF_PLAIN, data_nascimento |-> <<"15/03/1990">>,
                  nome |-> "Joao Silva", limite_credito |-> "5000.00",
                  score |-> "650"],
                 [cpf |-> <<"9", "8", "7", "6", "5", "4", "3", "2", "1", "0", "0">>,
                  data_nascimento |-> <<"22/07/1985">>,
                  nome |-> "Maria Santos", limite_credito |-> "8000.00",
                  score |-> "780"]>>],
     [status |-> "ok",
      rows |-> <<[cpf |-> <<" ">> \o CPF_FORMATTED,
                  data_nascimento |-> <<" ", "15/03/1990", " ">>,
                  nome |-> "Joao Silva", limite_credito |-> "5000.00",
                  score |-> "650"]>>],
     [status |-> "ok", rows |-> <<>>],
     [status |-> "missing", rows |-> <<>>],
     [status |-> "corrupted", rows |-> <<>>]}

InitFn ==
    /\ messages = <<HumanMessage(<< <<"mensagem do cliente">> >>)>>
    /\ authenticated = _get_initial_state.authenticated
    /\ client_data = _get_initial_state.client_data
    /\ auth_attempts = _get_initial_state.auth_attempts
    /\ current_agent = _get_initial_state.current_agent
    /\ should_end = _get_initial_state.should_end
    /\ node = "START"
    /\ idx = 0
    /\ tool_messages = <<>>
    /\ state_updates = <<>>
    /\ caller = "cli"
    /\ llm_ok = TRUE
    /\ llm_raised = FALSE
    /\ tool_raised = <<>>
    /\ heap = <<>>
    /\ session = [s \in Sessions |-> 0]
    /\ llm_input = <<>>
    /\ fn_out = <<>>
    /\ InitFiles
    /\ \/ /\ pc = "start"
          /\ \E d \in EntryStates : fn_in = [fn |-> "graph.invoke", state |-> d]
       \/ /\ pc = "agent"
          /\ \E a \in AgentAnswers : fn_in = [fn |-> "_agent_node", answer |-> a]
       \/ /\ pc = "init"
          /\ \E c \in AuthCpfs, b \in AuthBirthDates, f \in ClientFiles :
                fn_in = [fn |-> "authenticate_client", cpf |-> c,
                         birth_date |-> b, clients_csv |-> f]

\* graph.invoke(state): the conditional edge from START runs route_entry on
\* the state it was given and the graph goes to the node it names
GraphEntry ==
    /\ pc = "start"
    /\ fn_in.fn = "graph.invoke"
    /\ pc' = "agent"
    /\ node' = route_entry(fn_in.state)
    /\ UNCHANGED <<state_vars, tool_vars, env_vars, file_vars, fn_vars, session_vars,
                   llm_vars>>

\* an agent node whose backend gives the answer drawn, and the edge after it
AgentStepFn ==
    /\ fn_in.fn = "_agent_node"
    /\ AgentStepOn({fn_in.answer})

AuthenticateCall ==
    /\ fn_in.fn = "authenticate_client"
    /\ fn_out = <<>>
    /\ fn_out' = authenticate_client_invoke(fn_in.cpf, fn_in.birth_date,
                                            fn_in.clients_csv)
    /\ UNCHANGED <<state_vars, tool_vars, env_vars, file_vars, fn_in, session_vars,
                   llm_vars, pc, node>>

NextFn ==
    \/ GraphEntry
    \/ AgentStepFn
    \/ AuthenticateCall

SpecFn == InitFn /\ [][NextFn]_vars

-----------------------------------------------------------------------------
\* Properties

LastMessage == messages[Len(messages)]

\* the requests tool_node is working on
PendingCalls == LastMessage.tool_calls

IsToolResult(m) == m.type = "tool"

IsRequest(m) == m.type = "ai" /\ m.tool_calls # <<>>

\* C1 as stated: whenever advance has returned, the last message is an
\* assistant message without tool-call requests and with non-empty content.
C1_ReturnsNonEmptyText ==
    pc = "returned" =>
        /\ Len(messages) > 0
        /\ LastMessage.type = "ai"
        /\ LastMessage.tool_calls = <<>>
        /\ LastMessage.content # <<>>

\* The part of C1 that the engine does enforce: whenever advance has
\* returned, the last message is an assistant message without tool-call
\* requests (never a pending request, never a tool result), and the fallback
\* message of a backend failure is not empty.
C1_ReturnsPlainAssistantMessage ==
    pc = "returned" =>
        /\ Len(messages) > 0
        /\ LastMessage.type = "ai"
        /\ LastMessage.tool_calls = <<>>
        /\ (llm_raised => LastMessage.content # <<>>)

\* advance returned after a tool step, with an empty final answer
C1_Witness ==
    /\ pc = "returned"
    /\ Len(messages) >= 3
    /\ IsToolResult(messages[Len(messages) - 1])
    /\ LastMessage.content = <<>>

\* C2: tool_node works through the requests in the listed order and produces
\* exactly one tool result per request, in the same order, with the request's
\* call identifier and tool name; this holds while the batch is processed
\* (after j iterations the results of the first j requests exist) and for
\* every batch already merged into the history, unknown names and raising
\* tools included.
C2_OneResultPerRequest ==
    /\ pc = "tools" =>
          /\ idx <= Len(PendingCalls) + 1
          /\ Len(tool_messages) = idx - 1
          /\ \A k \in 1..Len(tool_messages) :
                /\ IsToolResult(tool_messages[k])
                /\ tool_messages[k].tool_call_id = PendingCalls[k].id
                /\ tool_messages[k].name = PendingCalls[k].name
    /\ \A p \in 1..Len(messages) :
          (IsRequest(messages[p]) /\ ~(pc = "tools" /\ p = Len(messages))) =>
             LET n == Len(messages[p].tool_calls) IN
             /\ p + n <= Len(messages)
             /\ \A k \in 1..n :
                   /\ IsToolResult(messages[p + k])
                   /\ messages[p + k].tool_call_id = messages[p].tool_calls[k].id
                   /\ messages[p + k].name = messages[p].tool_calls[k].name
             /\ (p + n < Len(messages) => ~IsToolResult(messages[p + n + 1]))

\* a merged batch of two requests: an unknown tool, then a tool that raised
C2_Witness ==
    \E p \in 1..Len(messages) :
        /\ IsRequest(messages[p])
        /\ Len(messages[p].tool_calls) = 2
        /\ p + 2 <= Len(messages)
        /\ messages[p].tool_calls[1].name \in UnknownTools
        /\ messages[p + 1].content = UnknownToolText(messages[p].tool_calls[1].name)
        /\ messages[p + 2].content = ERRO_SISTEMA

\* authenticate_client results among tool results tms that start with prefix
RECURSIVE AuthResults(_, _)
AuthResults(tms, prefix) ==
    IF tms = <<>> THEN 0
    ELSE (IF /\ tms[1].name = "authenticate_client"
             /\ StartsWith(tms[1].content, prefix)
          THEN 1 ELSE 0) + AuthResults(Tail(tms), prefix)

\* C3 as stated: auth_attempts never decreases; a tool step that executed k
\* authenticate_client calls with a FALHA result raises it by exactly k, and
\* SUCESSO and ERRO_SISTEMA results leave it unchanged.  Stated on the update
\* tool_node has accumulated for the requests processed so far.
C3_AttemptsRiseByFailures ==
    pc = "tools" =>
        DictGet(state_updates, "auth_attempts", auth_attempts)
            = auth_attempts + AuthResults(tool_messages, "FALHA")

\* the role a transfer tool names
RoleNamedBy(tool_name) ==
    CASE tool_name = "transfer_to_credit" -> "credit"
      [] tool_name = "transfer_to_exchange" -> "exchange"
      [] tool_name = "transfer_to_interview" -> "interview"
      [] tool_name = "transfer_to_triage" -> "triage"

TransferTools == {"transfer_to_credit", "transfer_to_exchange",
                  "transfer_to_interview", "transfer_to_triage"}

\* the name of the last transfer tool among the trailing tool results of
\* history, "" when there is none
RECURSIVE LastTransfer(_, _)
LastTransfer(history, p) ==
    IF p = 0 \/ ~IsToolResult(history[p]) THEN ""
    ELSE IF history[p].name \in TransferTools THEN history[p].name
    ELSE LastTransfer(history, p - 1)

\* C4: right after tool_node has processed a request for a transfer tool,
\* the update it carries sets current_agent to the role the tool names,
\* whatever the result text is (the tool's own text or ERRO_SISTEMA); and
\* once the batch is merged current_agent is the role named by the batch's
\* last transfer request.
C4_TransferSetsNamedRole ==
    /\ (pc = "tools" /\ Len(tool_messages) >= 1
           /\ tool_messages[Len(tool_messages)].name \in TransferTools) =>
          /\ "current_agent" \in DOMAIN state_updates
          /\ state_updates.current_agent
                = RoleNamedBy(tool_messages[Len(tool_messages)].name)
    /\ (pc = "agent" /\ Len(messages) >= 1
           /\ LastTransfer(messages, Len(messages)) # "") =>
          current_agent = RoleNamedBy(LastTransfer(messages, Len(messages)))

\* a batch of two transfers: transfer_to_interview returned its own text,
\* then transfer_to_exchange was invoked, raised, and still took effect
C4_Witness ==
    /\ pc = "tools"
    /\ Len(tool_messages) = 2
    /\ tool_messages[1].name = "transfer_to_interview"
    /\ StartsWith(tool_messages[1].content, "TRANSFERENCIA")
    /\ tool_messages[2].name = "transfer_to_exchange"
    /\ tool_messages[2].content = ERRO_SISTEMA
    /\ current_agent = "interview"
    /\ "current_agent" \in DOMAIN state_updates
    /\ state_updates.current_agent = "exchange"

\* a step within a conversation: any step but the chat UI's new conversation
WithinConversation == pc' # "start"

\* C5: within a conversation authenticated changes only from false to true,
\* and only when tool_node returns after a batch in which an
\* authenticate_client call had a result that starts with SUCESSO; no step of
\* the conversation sets it back to false.
C5_AuthenticatedOnlyBySuccess ==
    [][(authenticated' # authenticated /\ WithinConversation) =>
         /\ ~authenticated
         /\ authenticated'
         /\ pc = "tools"
         /\ pc' = "agent"
         /\ AuthResults(tool_messages, "SUCESSO") >= 1]_vars

\* authenticated although a later authenticate_client call failed
C5_Witness ==
    /\ authenticated
    /\ \E i, j \in 1..Len(messages) :
          /\ i < j
          /\ IsToolResult(messages[i]) /\ IsToolResult(messages[j])
          /\ AuthResults(<<messages[i]>>, "SUCESSO") = 1
          /\ AuthResults(<<messages[j]>>, "FALHA") = 1

\* C6: within a conversation should_end changes only from false to true, and
\* only when tool_node returns after a batch that held an end_conversation
\* call; no agent step, tool step or later advance call of the conversation
\* sets it back to false.
C6_ShouldEndLatch ==
    [][(should_end' # should_end /\ WithinConversation) =>
         /\ ~should_end
         /\ should_end'
         /\ pc = "tools"
         /\ pc' = "agent"
         /\ \E k \in 1..Len(tool_messages) :
               tool_messages[k].name = "end_conversation"]_vars

\* a later tool step has run to its end while should_end was already set
C6_Witness ==
    /\ should_end
    /\ pc = "tools"
    /\ Len(tool_messages) >= 1
    /\ idx > Len(PendingCalls)

\* C7: current_agent is always one of the four roles, and within a
\* conversation it changes only when tool_node returns after a batch that
\* held a transfer tool call.
C7_CurrentAgentOnlyByTransfer ==
    /\ [](current_agent \in {"triage", "credit", "interview", "exchange"})
    /\ [][(current_agent' # current_agent /\ WithinConversation) =>
            /\ pc = "tools"
            /\ pc' = "agent"
            /\ \E k \in 1..Len(tool_messages) :
                  tool_messages[k].name \in TransferTools]_vars

\* a turn has ended with the conversation handed to the interview agent
C7_Witness ==
    /\ pc = "returned"
    /\ current_agent = "interview"

\* C8: an agent step in which the model backend raises appends exactly one
\* assistant message, the fixed text with 'dificuldades tecnicas' and no
\* tool calls, ends the turn without raising and without running a tool, and
\* leaves authenticated, client_data, auth_attempts, current_agent and
\* should_end unchanged.
C8_BackendFailureEndsTurn ==
    [][(pc = "agent" /\ llm_ok /\ llm_raised' /\ messages' # messages) =>
         /\ Len(messages') = Len(messages) + 1
         /\ SubSeq(messages', 1, Len(messages)) = messages
         /\ messages'[Len(messages')].type = "ai"
         /\ Contains(messages'[Len(messages')].content, "dificuldades tecnicas")
         /\ messages'[Len(messages')].tool_calls = <<>>
         /\ pc' = "returned"
         /\ tool_messages' = <<>>
         /\ UNCHANGED <<authenticated, client_data, auth_attempts,
                        current_agent, should_end>>]_vars

\* the backend failed under the exchange agent, after the end of the
\* conversation had been requested
C8_Witness ==
    /\ pc = "returned"
    /\ llm_raised
    /\ node = "exchange"
    /\ should_end

\* C9 as stated: when a batch holds a request for a tool that is not in the
\* registry, tool_node returns without raising, the result of that request
\* carries the 'nao disponivel' marker, and the next agent step is of the
\* agent that issued the request.
C9_UnknownToolSameAgent ==
    [][(pc = "tools" /\ pc' # "tools"
          /\ \E k \in 1..Len(tool_messages) : tool_messages[k].name \notin TOOL_MAP) =>
         /\ pc' = "agent"
         /\ \A k \in 1..Len(tool_messages) :
               tool_messages[k].name \notin TOOL_MAP =>
                  Contains(tool_messages[k].content, "nao disponivel")
         /\ node' = node]_vars

\* C9 amended: when a batch holds a request for a tool that is not in the
\* registry, tool_node returns without raising, the result of that request
\* carries the 'nao disponivel' marker, and the next agent step is of the
\* agent current_agent names after the batch: the agent that issued the
\* request, unless another request of the same batch is a transfer tool.
C9_UnknownToolRoutesToCurrentAgent ==
    [][(pc = "tools" /\ pc' # "tools"
          /\ \E k \in 1..Len(tool_messages) : tool_messages[k].name \notin TOOL_MAP) =>
         /\ pc' = "agent"
         /\ \A k \in 1..Len(tool_messages) :
               tool_messages[k].name \notin TOOL_MAP =>
                  Contains(tool_messages[k].content, "nao disponivel")
         /\ node' = current_agent'
         /\ ((\A k \in 1..Len(tool_messages) :
                 tool_messages[k].name \notin TransferTools) => node' = node)]_vars

\* the credit agent is about to run on the result of an unknown tool that
\* triage requested together with a transfer
C9_Witness ==
    /\ pc = "agent"
    /\ node = "credit"
    /\ Len(messages) >= 3
    /\ IsToolResult(LastMessage)
    /\ LastMessage.name \in UnknownTools
    /\ Contains(LastMessage.content, "nao disponivel")
    /\ messages[Len(messages) - 1].name = "transfer_to_credit"

\* C10: when tool.invoke of a registered tool raises, tool_node records for
\* that request a result that starts with ERRO_SISTEMA, goes on with the
\* remaining requests of the batch, and the turn is not aborted (the run
\* raises only when get_llm finds no credentials).
C10_ToolErrorBecomesResult ==
    /\ pc = "tools" =>
          /\ Len(tool_raised) = idx - 1
          /\ Len(tool_messages) = Len(tool_raised)
          /\ \A k \in 1..Len(tool_raised) :
                tool_raised[k] =>
                   /\ PendingCalls[k].name \in TOOL_MAP
                   /\ StartsWith(tool_messages[k].content, "ERRO_SISTEMA")
                   /\ tool_messages[k].tool_call_id = PendingCalls[k].id
    /\ pc = "raised" => ~llm_ok

\* the first tool of a batch raised and the second one was still invoked
C10_Witness ==
    /\ pc = "tools"
    /\ Len(tool_raised) = 2
    /\ tool_raised[1]
    /\ ~tool_raised[2]
    /\ PendingCalls[2].name \in TOOL_MAP
    /\ StartsWith(tool_messages[2].content, "SUCESSO")

\* the tool names among the trailing tool results of history
RECURSIVE TrailingNames(_, _)
TrailingNames(history, p) ==
    IF p = 0 \/ ~IsToolResult(history[p]) THEN {}
    ELSE {history[p].name} \cup TrailingNames(history, p - 1)

\* C11: when tool_node returns, the run never goes back to the caller: the
\* batch's results are appended, the next step is the agent node that
\* current_agent names after the batch's deltas were merged (the role of the
\* batch's last transfer request when there is one), and that agent appends
\* the next message, an assistant message, before any user input is read.
C11_ToolStepThenCurrentAgent ==
    /\ [][(pc = "tools" /\ pc' # "tools") =>
            /\ pc' = "agent"
            /\ messages' = messages \o tool_messages
            /\ node' = current_agent'
            /\ node' \in agent_names
            /\ (LastTransfer(tool_messages, Len(tool_messages)) # "" =>
                   node' = RoleNamedBy(LastTransfer(tool_messages,
                                                    Len(tool_messages))))
            /\ (LastTransfer(tool_messages, Len(tool_messages)) = "" =>
                   node' = node)]_vars
    /\ [][(pc = "agent" /\ messages' # messages /\ Len(messages) > 0
              /\ IsToolResult(LastMessage)) =>
            /\ Len(messages') = Len(messages) + 1
            /\ SubSeq(messages', 1, Len(messages)) = messages
            /\ messages'[Len(messages')].type = "ai"
            /\ node = current_agent
            /\ UNCHANGED node]_vars

\* the first advance call has returned with the answer of the exchange agent,
\* to which triage had transferred in that same call
C11_Witness ==
    /\ pc = "returned"
    /\ Len(messages) = 3
    /\ node = "exchange"
    /\ messages[2].name = "transfer_to_exchange"
    /\ LastMessage.content # <<>>

\* C12 as stated: once end_conversation was executed in a tool step,
\* should_end is true, and the message the agent appends right after the tool
\* results is an assistant message that ends the turn.
C12_EndConversationThenFinalMessage ==
    /\ []((\E p \in 1..Len(messages) :
               IsToolResult(messages[p]) /\ messages[p].name = "end_conversation")
            => should_end)
    /\ [][(pc = "agent" /\ messages' # messages
              /\ "end_conversation" \in TrailingNames(messages, Len(messages))) =>
            /\ should_end'
            /\ messages'[Len(messages')].type = "ai"
            /\ node = current_agent
            /\ pc' = "returned"]_vars

\* C12 amended: once end_conversation was executed in a tool step,
\* should_end is true and stays true in the returned state; the message
\* appended right after the tool results is an assistant message of the
\* active agent, and the turn never ends on the tool result: it ends on an
\* assistant message without tool calls, which is that message unless it
\* requests further tools (then the tool step and the agent run again).
C12_EndConversationThenAgentMessage ==
    /\ []((\E p \in 1..Len(messages) :
               IsToolResult(messages[p]) /\ messages[p].name = "end_conversation")
            => should_end)
    /\ [](pc = "returned" => (LastMessage.type = "ai" /\ LastMessage.tool_calls = <<>>))
    /\ [][(pc = "agent" /\ messages' # messages
              /\ "end_conversation" \in TrailingNames(messages, Len(messages))) =>
            /\ should_end'
            /\ messages'[Len(messages')].type = "ai"
            /\ node = current_agent
            /\ pc' = (IF messages'[Len(messages')].tool_calls = <<>>
                       THEN "returned" ELSE "tools")]_vars

\* the turn in which end_conversation ran has ended on the agent's own text
C12_Witness ==
    /\ pc = "returned"
    /\ should_end
    /\ Len(messages) >= 3
    /\ IsToolResult(messages[Len(messages) - 1])
    /\ messages[Len(messages) - 1].name = "end_conversation"
    /\ messages[Len(messages) - 1].content \in end_conversation
    /\ LastMessage.content # <<>>

-----------------------------------------------------------------------------
\* Two conversations side by side, their state dicts as objects on a heap

\* _get_initial_state that hands out one module-level dict
_get_initial_state_shared(h) ==
    IF h = <<>> THEN [heap |-> <<_get_initial_state>>, ref |-> 1]
    ELSE [heap |-> h, ref |-> 1]

\* _get_initial_state as a call: its dict display makes a new object on
\* every call; the heap after the call and the address returned
_get_initial_state_new(h) ==
    [heap |-> Append(h, _get_initial_state), ref |-> Len(h) + 1]

\* state = _get_initial_state(); state["messages"] = [], by a conversation
\* that is not inside a call of graph.invoke
StartConversation(s) ==
    /\ inflight[s].pc = "idle"
    /\ Len(heap) + Cardinality({t \in Sessions : inflight[t].pc # "idle"})
          < MaxDicts
    /\ LET r == _get_initial_state_new(heap)
       IN /\ heap' = [r.heap EXCEPT ![r.ref] = DictSet(@, "messages", <<>>)]
          /\ session' = [session EXCEPT ![s] = r.ref]
    /\ UNCHANGED <<state_vars, tool_vars, env_vars, file_vars, fn_vars, pc, node, llm_vars>>

\* state["messages"].append(HumanMessage(content=user_input)), in the loop
\* that goes on while should_end is not set
AppendHuman(s) ==
    /\ session[s] # 0
    /\ inflight[s].pc = "idle"
    /\ LoopCondition(heap[session[s]])
    /\ Len(heap[session[s]].messages) < MaxSessionMsgs
    /\ heap' = [heap EXCEPT ![session[s]].messages =
                   Append(@, HumanMessage(<< <<"mensagem do cliente">> >>))]
    /\ UNCHANGED <<session, state_vars, tool_vars, env_vars, file_vars, fn_vars, pc, node,
                   llm_vars>>

\* tool_node(st) from request k of the last message on, with the files fl:
\* the update it returns and the files after it.  The tools find the files
\* openable and the service answering
RECURSIVE tool_node(_, _, _, _)
tool_node(st, k, fl, acc) ==
    LET calls == st.messages[Len(st.messages)].tool_calls
        outcome == IF calls[k].name \in DOMAIN registry
                   THEN ToolInvoke(calls[k].name, calls[k].args, fl,
                                   [log |-> TRUE, write |-> "ok", kept |-> 0,
                                    service |->
                                        Response(200, SAMPLE_USD_RESPONSE)])
                   ELSE [raises |-> FALSE, result |-> <<>>, files |-> fl]
    IN IF k > Len(calls)
       THEN [update |-> DictSet(acc.state_updates, "messages",
                                acc.tool_messages),
             files |-> fl]
       ELSE tool_node(st, k + 1, outcome.files,
                      tool_node_call(calls[k], outcome, st, acc))

\* what the model backend does in one advance call of these conversations:
\* it answers with a text, or raises, or first asks for the client's
\* authentication and the transfer to the credit agent, for an
\* authentication with a wrong birth date, or for the end of the
\* conversation, and then answers with a text
SessionScripts(history) ==
    LET answer(t) == [raises |-> FALSE, response |-> AIMessage(t, <<>>)]
        asks(names) ==
            [raises |-> FALSE,
             response |->
                 AIMessage(<<>>,
                     [k \in 1..Len(names) |->
                         ToolCall(names[k][1], names[k][2],
                                  10 * (Len(history) + 1) + k)])]
        ok == [cpf |-> CPF_PLAIN, birth_date |-> <<"15/03/1990">>]
        wrong == [cpf |-> CPF_PLAIN, birth_date |-> <<"01/01/2000">>]
    IN {<<answer(t)>> : t \in PlainTexts}
       \cup {<<[raises |-> TRUE, response |-> <<>>]>>}
       \cup {<<asks(names), answer(<<>>)>> :
                names \in {<< <<"authenticate_client", ok>>,
                              <<"transfer_to_credit", <<>> >> >>,
                           << <<"authenticate_client", wrong>> >>,
                           << <<"end_conversation", <<>> >> >>}}

\* the calls of graph.invoke that have not returned yet
CallsAtWork == {t \in Sessions : inflight[t].pc # "idle"}

\* result = graph.invoke(state) is called: the graph takes the values of the
\* caller's dict and works on them on its own (the nodes only read the
\* state they are given, and their updates are merged into the graph's
\* values); the caller's dict stays as it is while the call is at work.
\* script is what the model backend will answer during the call
GraphInvoke(s) ==
    /\ session[s] # 0
    /\ inflight[s].pc = "idle"
    /\ LoopCondition(heap[session[s]])
    /\ Len(heap) + Cardinality(CallsAtWork) < MaxDicts
    /\ Len(heap[session[s]].messages) < MaxSessionMsgs
    /\ \E script \in SessionScripts(heap[session[s]].messages) :
          inflight' = [inflight EXCEPT ![s] =
                          [pc |-> "agent", state |-> heap[session[s]],
                           script |-> script]]
    /\ UNCHANGED <<state_vars, tool_vars, env_vars, clientes_csv,
                   score_limite_csv, solicitacoes_csv, session_vars, fn_vars,
                   pc, node, llm_vars>>

\* the agent node of the call runs and its update is merged; should_continue
\* then sends the call to tool_node or ends it
AgentNodeRuns(s) ==
    /\ inflight[s].pc = "agent"
    /\ LET call == inflight[s]
           after_agent == merge_update(call.state,
                                       _agent_node_update(Head(call.script)))
       IN inflight' =
             [inflight EXCEPT ![s] =
                 [call EXCEPT
                     !.pc = IF /\ should_continue(after_agent) = "tools"
                               /\ Len(call.script) > 1
                            THEN "tools" ELSE "end",
                     !.state = after_agent]]
    /\ UNCHANGED <<state_vars, tool_vars, env_vars, clientes_csv,
                   score_limite_csv, solicitacoes_csv, session_vars, fn_vars,
                   pc, node, llm_vars>>

\* tool_node of the call runs and its update is merged; route_after_tools
\* sends the call to an agent node again
ToolNodeRuns(s) ==
    /\ inflight[s].pc = "tools"
    /\ LET call == inflight[s]
           t == tool_node(call.state, 1, Files,
                          [tool_messages |-> <<>>, state_updates |-> <<>>])
       IN /\ inflight' =
                [inflight EXCEPT ![s] =
                    [call EXCEPT !.pc = "agent",
                                 !.state = merge_update(call.state, t.update),
                                 !.script = Tail(call.script)]]
          /\ clientes_csv' = t.files.clientes
          /\ solicitacoes_csv' = t.files.solicitacoes
    /\ UNCHANGED <<state_vars, tool_vars, env_vars, score_limite_csv,
                   session_vars, fn_vars, pc, node, llm_vars>>

\* graph.invoke returns and state = result: the conversation goes on with
\* the dict that graph.invoke returns, a new object
AdvanceReturns(s) ==
    /\ inflight[s].pc = "end"
    /\ heap' = Append(heap, inflight[s].state)
    /\ session' = [session EXCEPT ![s] = Len(heap) + 1]
    /\ inflight' = [inflight EXCEPT ![s] = [pc |-> "idle"]]
    /\ UNCHANGED <<state_vars, tool_vars, env_vars, clientes_csv,
                   score_limite_csv, solicitacoes_csv, fn_vars, pc, node,
                   llm_vars>>

InitSessions ==
    /\ Init
    /\ caller = "cli"
    /\ llm_ok

NextSessions ==
    \E s \in Sessions :
        \/ StartConversation(s)
        \/ AppendHuman(s)
        \/ GraphInvoke(s)
        \/ AgentNodeRuns(s)
        \/ ToolNodeRuns(s)
        \/ AdvanceReturns(s)

SpecSessions == InitSessions /\ [][NextSessions]_vars

-----------------------------------------------------------------------------

\* the state dict of conversation t is what it was, and so are the values
\* the graph works on when t is inside a call of graph.invoke
Untouched(t) ==
    /\ inflight'[t] = inflight[t]
    /\ session[t] # 0 =>
          /\ session'[t] = session[t]
          /\ heap'[session[t]] = heap[session[t]]

\* C17: a conversation starts from authenticated = false, client_data = None,
\* auth_attempts = 0, current_agent = triage, should_end = false and no
\* message, in a dict that is no other conversation's dict; and whatever one
\* conversation does to its state (starting over, appending a message,
\* calling graph.invoke, running a node inside the call, going on with the
\* result of the call) leaves the state of the other conversation as it
\* was, whether that one is inside a call of graph.invoke or not.
C17_FreshIndependentState ==
    /\ [][\A s \in Sessions : StartConversation(s) =>
             /\ heap'[session'[s]] =
                   [authenticated |-> FALSE, client_data |-> None,
                    auth_attempts |-> 0, current_agent |-> "triage",
                    should_end |-> FALSE, messages |-> <<>>]
             /\ \A t \in Sessions \ {s} :
                   /\ session'[s] # session[t]
                   /\ Untouched(t)]_vars
    /\ [][\A s \in Sessions :
             (AppendHuman(s) \/ GraphInvoke(s) \/ AgentNodeRuns(s)
                 \/ ToolNodeRuns(s) \/ AdvanceReturns(s)) =>
                \A t \in Sessions \ {s} : Untouched(t)]_vars
    /\ [](\A s, t \in Sessions :
             (s # t /\ session[s] # 0) => session[s] # session[t])

\* the second conversation has the initial state while the first one is
\* inside a call of graph.invoke in which it was authenticated and moved to
\* the credit agent; the dict the first one passed to the call is as it was
C17_Witness ==
    /\ session["s1"] # 0
    /\ session["s2"] # 0
    /\ inflight["s1"].pc = "agent"
    /\ inflight["s1"].state.authenticated
    /\ inflight["s1"].state.current_agent = "credit"
    /\ ~heap[session["s1"]].authenticated
    /\ heap[session["s1"]].current_agent = "triage"
    /\ inflight["s2"].pc = "idle"
    /\ heap[session["s2"]] = _get_initial_state @@ [messages |-> <<>>]

\* C13 as stated: missing credentials of the model backend never make an
\* advance call (graph.invoke) raise; they can only make build_graph fail.
C13_NoErrorOutOfAdvance ==
    pc # "raised"

\* C14 as stated: auth_attempts never exceeds 3; once it has reached 3 no
\* authenticate_client call is executed any more, and the turn in which it
\* reached 3 ends with should_end set.
C14_AtMostThreeFailedAttempts ==
    /\ auth_attempts <= 3
    /\ (pc = "tools" /\ auth_attempts >= 3) =>
          \A k \in 1..Len(tool_messages) :
              tool_messages[k].name # "authenticate_client"
    /\ (pc = "returned" /\ auth_attempts >= 3) => should_end

\* C14 amended: the engine counts failed attempts without a cap.  The counter
\* is a natural number that changes only when tool_node returns after a batch
\* with a failed authenticate_client call (or a new conversation starts), and
\* every such batch makes it grow, also beyond 3; a pending request is
\* executed whatever the counter is; and should_end is set only by a batch
\* that held an end_conversation call, never by the counter.
C14_AttemptsCountedNotCapped ==
    /\ [](auth_attempts \in Nat)
    /\ [](pc = "tools" /\ idx <= Len(PendingCalls) => ENABLED ToolCallStep)
    /\ [][(auth_attempts' # auth_attempts /\ WithinConversation) =>
            /\ auth_attempts' > auth_attempts
            /\ pc = "tools"
            /\ pc' = "agent"
            /\ AuthResults(tool_messages, "FALHA") >= 1]_vars
    /\ [][(pc = "tools" /\ pc' = "agent"
             /\ AuthResults(tool_messages, "FALHA") >= 1) =>
            auth_attempts' > auth_attempts]_vars
    /\ [][(should_end' /\ ~should_end) =>
            \E k \in 1..Len(tool_messages) :
               tool_messages[k].name = "end_conversation"]_vars

\* a turn has ended after the fourth failed attempt, the conversation goes on
C14_Witness ==
    /\ pc = "returned"
    /\ auth_attempts = 4
    /\ ~authenticated
    /\ ~should_end

\* C15: once an advance call has returned with should_end set, no further
\* turn is offered: the CLI leaves its loop without reading input or calling
\* graph.invoke and then does nothing more; the chat UI offers only the new
\* conversation, which starts from the initial state with no message.
C15_NoTurnAfterShouldEnd ==
    /\ [][(pc \in {"returned", "caught"} /\ should_end) =>
            \/ /\ caller = "cli"
               /\ pc' = "exited"
               /\ UNCHANGED state_vars
            \/ /\ caller = "app"
               /\ pc' = "start"
               /\ messages' = <<>>
               /\ ~authenticated'
               /\ client_data' = None
               /\ auth_attempts' = 0
               /\ current_agent' = "triage"
               /\ ~should_end']_vars
    /\ [][pc # "exited"]_vars

\* the CLI has ended after a turn in which end_conversation ran
C15_Witness ==
    /\ caller = "cli"
    /\ pc = "exited"
    /\ should_end
    /\ Len(messages) >= 3
    /\ \E p \in 1..Len(messages) :
          IsToolResult(messages[p]) /\ messages[p].name = "end_conversation"

\* the caller waits for the user's next message
Idle == pc \in {"returned", "caught"}

\* the conversation has been through a failure the program recovered from:
\* a model-backend failure, an unknown tool or a tool exception (ERRO...
\* results), a client_data parse failure, an exception caught by the caller
FailureSeen ==
    \/ pc = "caught"
    \/ \E p \in 1..Len(messages) :
          \/ messages[p].type = "ai" /\ messages[p].content = FALLBACK_TEXT
          \/ /\ IsToolResult(messages[p])
             /\ \/ messages[p].content = ERRO_SISTEMA
                \/ messages[p].content = UnknownToolText(messages[p].name)
    \/ (client_data # None /\ "raw" \in DOMAIN client_data)

\* the side-channel state is a conversation state (AgentState): client_data
\* is None or a dict of the known fields
ValidState ==
    /\ authenticated \in BOOLEAN
    /\ should_end \in BOOLEAN
    /\ auth_attempts \in Nat
    /\ current_agent \in agent_names
    /\ \/ client_data = None
       \/ DOMAIN client_data
             \subseteq {"nome", "cpf", "limite_credito", "score", "raw"}
    /\ \A p \in 1..Len(messages) : messages[p].type \in {"human", "ai", "tool"}

\* the caller's next turn starts at the agent that current_agent names and
\* changes nothing of the state but the message it appends
NextTurnAsUsual ==
    [][(Idle /\ pc' = "agent") =>
         /\ node' = current_agent
         /\ Len(messages') = Len(messages) + 1
         /\ messages'[Len(messages')].type = "human"
         /\ UNCHANGED <<authenticated, client_data, auth_attempts,
                        current_agent, should_end>>]_vars

\* C16 as stated: whenever the caller waits for input after a recovered
\* failure, the state is a valid conversation state, the loop accepts the
\* next input, and the next advance call starts at current_agent as usual.
C16_ResumableAfterFailure ==
    /\ []((Idle /\ FailureSeen) =>
             /\ ValidState
             /\ ENABLED UserTurnUpTo(Len(messages) + 2))
    /\ NextTurnAsUsual

\* C16 amended: whenever the caller waits for input after a recovered
\* failure, the state is a valid conversation state and the next advance call
\* starts at current_agent as usual; the loop accepts the next input unless
\* should_end is set, which no failure does by itself: it is set only when an
\* end_conversation call was executed (even one that raised), in the same
\* turn or before.
C16_ResumableUnlessEnded ==
    /\ []((Idle /\ FailureSeen) =>
             /\ ValidState
             /\ (~should_end => ENABLED UserTurnUpTo(Len(messages) + 2))
             /\ (should_end =>
                    \E p \in 1..Len(messages) :
                       /\ IsToolResult(messages[p])
                       /\ messages[p].name = "end_conversation"))
    /\ [][pc = "raised" => UNCHANGED state_vars]_vars
    /\ NextTurnAsUsual

\* under the CLI the credit agent starts a turn on the user's message that
\* follows the fallback text of a failed model call
C16_Witness ==
    /\ caller = "cli"
    /\ pc = "agent"
    /\ node = "credit"
    /\ Len(messages) >= 2
    /\ LastMessage.type = "human"
    /\ messages[Len(messages) - 1].content = FALLBACK_TEXT

\* C18 as stated: every registered tool that tool_node has executed for the
\* requests of the agent that ran last is one of that agent's declared tools.
C18_ToolsWithinAgentSubset ==
    pc = "tools" =>
        \A k \in 1..Len(tool_messages) :
            PendingCalls[k].name \in TOOL_MAP =>
                PendingCalls[k].name \in AGENT_CONFIG[node]

FieldLabels ==
    [nome |-> "Nome:", cpf |-> "CPF:", limite_credito |-> "Limite de credito:",
     score |-> "Score:"]

\* the last token of the part of text that holds label
ValueAfter(text, label) ==
    LET part == text[CHOOSE i \in 1..Len(text) : IndexOf(text[i], label, 1) > 0]
    IN part[Len(part)]

\* C20: right after tool_node has processed an authenticate_client call whose
\* result starts with SUCESSO, its update sets authenticated to true and
\* client_data either to {raw: the full result text}, when a numeric field of
\* the text is not a number, or to a mapping that has exactly the fields
\* whose labels are in the text, with the text's values (limite_credito and
\* score as numbers); and once the batch is merged authenticated is true.
C20_AuthSuccessParsedOrRaw ==
    /\ [](LET n == Len(tool_messages) IN
          (pc = "tools" /\ n >= 1
              /\ tool_messages[n].name = "authenticate_client"
              /\ StartsWith(tool_messages[n].content, "SUCESSO")) =>
            LET text == tool_messages[n].content
                cd == state_updates.client_data
                bad == \/ /\ Contains(text, "Score:")
                          /\ ValueAfter(text, "Score:") \notin DOMAIN IntTable
                       \/ /\ Contains(text, "Limite de credito:")
                          /\ ValueAfter(text, "Limite de credito:")
                                \notin DOMAIN FloatTable
            IN /\ state_updates.authenticated = TRUE
               /\ bad => cd = [raw |-> text]
               /\ ~bad =>
                    /\ DOMAIN cd = {f \in DOMAIN FieldLabels :
                                       Contains(text, FieldLabels[f])}
                    /\ \A f \in DOMAIN cd :
                          cd[f] = IF f = "limite_credito"
                                  THEN FloatTable[ValueAfter(text, FieldLabels[f])]
                                  ELSE IF f = "score"
                                  THEN IntTable[ValueAfter(text, FieldLabels[f])]
                                  ELSE ValueAfter(text, FieldLabels[f]))
    /\ [][(pc = "tools" /\ pc' = "agent"
             /\ AuthResults(tool_messages, "SUCESSO") >= 1) =>
            authenticated']_vars

\* the client is authenticated and client_data is the raw text of a SUCESSO
\* result whose score could not be parsed
C20_Witness ==
    /\ pc = "agent"
    /\ authenticated
    /\ client_data # None
    /\ DOMAIN client_data = {"raw"}
    /\ IsToolResult(LastMessage)
    /\ client_data.raw = LastMessage.content
    /\ StartsWith(LastMessage.content, "SUCESSO")

-----------------------------------------------------------------------------
\* The state-delta rules, call by call (SpecRules)

\* tool_node has just processed request number idx of the batch
ProcessedCall == pc = "tools" /\ idx' = idx + 1

\* the text tool_node recorded for that request
ResultText == tool_messages'[idx].content

\* the three conditions of a score update
ScoreUpdateApplies ==
    /\ StartsWith(ResultText, "ATUALIZADO")
    /\ client_data # None
    /\ new_score_of(ResultText) >= 0

\* the four conditions of a limit update
LimitUpdateApplies ==
    /\ StartsWith(ResultText, "APROVADO")
    /\ client_data # None
    /\ "new_limit" \in DOMAIN PendingCalls[idx].args
    /\ PyFloat(PendingCalls[idx].args.new_limit) >= 0

\* C21: a processed update_client_score request puts a client_data delta in
\* the step's update exactly when its result starts with ATUALIZADO, the
\* input state has a client record and the text carries an integer after
\* "para" (full stops aside); the delta's score is that integer.  In every
\* other case (other prefix, no client record, no integer, tool raised) the
\* update is what it was before the request.
C21_ScoreUpdateRule ==
    [][(ProcessedCall /\ PendingCalls[idx].name = "update_client_score") =>
          IF ScoreUpdateApplies
          THEN /\ "client_data" \in DOMAIN state_updates'
               /\ state_updates'.client_data.score = new_score_of(ResultText)
               /\ \A k \in DOMAIN state_updates' \ {"client_data"} :
                     k \in DOMAIN state_updates /\ state_updates'[k] = state_updates[k]
          ELSE state_updates' = state_updates]_vars

\* a score update applied to a record whose score was 650, and merged
C21_Witness ==
    /\ pc = "agent"
    /\ Len(messages) = 3
    /\ messages[3].name = "update_client_score"
    /\ StartsWith(messages[3].content, "ATUALIZADO")
    /\ client_data # None
    /\ "score" \in DOMAIN client_data
    /\ client_data.score = 800
    /\ "limite_credito" \in DOMAIN client_data
    /\ client_data.limite_credito = 5000000

\* C22: a processed request_limit_increase request puts a client_data delta
\* in the step's update exactly when its result starts with APROVADO, the
\* input state has a client record and the request carries a new_limit that
\* converts to a number; the delta's limite_credito is that argument, not the
\* amount the result text prints.  In every other case the update is what it
\* was before the request.
C22_LimitIncreaseRule ==
    [][(ProcessedCall /\ PendingCalls[idx].name = "request_limit_increase") =>
          IF LimitUpdateApplies
          THEN /\ "client_data" \in DOMAIN state_updates'
               /\ state_updates'.client_data.limite_credito =
                      PyFloat(PendingCalls[idx].args.new_limit)
               /\ \A k \in DOMAIN state_updates' \ {"client_data"} :
                     k \in DOMAIN state_updates /\ state_updates'[k] = state_updates[k]
          ELSE state_updates' = state_updates]_vars

\* an approved request for 8000 whose text prints 7000.00, merged
C22_Witness ==
    /\ pc = "agent"
    /\ Len(messages) = 3
    /\ messages[3].name = "request_limit_increase"
    /\ StartsWith(messages[3].content, "APROVADO")
    /\ Contains(messages[3].content, "7000.00")
    /\ client_data # None
    /\ "limite_credito" \in DOMAIN client_data
    /\ client_data.limite_credito = 8000000

\* the client record as it stands before a request of the batch: the one the
\* batch has written so far, the input state's otherwise
RecordBefore == DictGet(state_updates, "client_data", client_data)

\* C23 as stated: a score update that applies changes only the score and a
\* limit update that applies changes only the limit: every other field of the
\* client record keeps the value it had immediately before that request,
\* values written by earlier requests of the same batch included.
C23_OtherFieldsKept ==
    [][(/\ ProcessedCall
        /\ \/ PendingCalls[idx].name = "update_client_score" /\ ScoreUpdateApplies
           \/ PendingCalls[idx].name = "request_limit_increase" /\ LimitUpdateApplies) =>
          LET field == IF PendingCalls[idx].name = "update_client_score"
                       THEN "score" ELSE "limite_credito"
              after == state_updates'.client_data
          IN \A k \in (DOMAIN RecordBefore \cup DOMAIN after) \ {field} :
                /\ k \in DOMAIN RecordBefore
                /\ k \in DOMAIN after
                /\ after[k] = RecordBefore[k]]_vars

\* the requests a batch has processed wrote these fields
C24_Delta(k) ==
    IF PendingCalls[k].name \in TOOL_MAP
    THEN apply_tool_rules(PendingCalls[k].name, PendingCalls[k].args,
                          tool_messages'[k].content, state, <<>>)
    ELSE <<>>

\* C24: tool_node starts from an empty update; each request's own delta (its
\* rule applied to the input state) is laid over the update accumulated so
\* far, so that a field's value is the delta of the last request that wrote
\* it and a field no request wrote is absent; when tool_node returns, exactly
\* the fields of the update are overwritten in the state.
C24_LastWriteWins ==
    /\ [][ProcessedCall =>
            /\ (idx = 1 => state_updates = <<>>)
            /\ DOMAIN state_updates' = DOMAIN state_updates \cup DOMAIN C24_Delta(idx)
            /\ \A k \in DOMAIN state_updates' :
                  state_updates'[k] = IF k \in DOMAIN C24_Delta(idx)
                                      THEN C24_Delta(idx)[k]
                                      ELSE state_updates[k]]_vars
    /\ [][(pc = "tools" /\ pc' = "agent") =>
            \A k \in DOMAIN state \ {"messages"} :
               state'[k] = IF k \in DOMAIN state_updates
                           THEN state_updates[k] ELSE state[k]]_vars

\* two transfers in one batch: the update names the target of the second one
\* and holds no other field
C24_Witness ==
    /\ pc = "tools"
    /\ Len(PendingCalls) = 2
    /\ idx = 3
    /\ PendingCalls[1].name = "transfer_to_triage"
    /\ PendingCalls[2].name = "transfer_to_credit"
    /\ state_updates = [current_agent |-> "credit"]

\* the tools that have no state rule
NoRuleTools == {"query_credit_limit", "get_exchange_rate",
                "calculate_credit_score"}

\* C25: a processed transfer request writes current_agent, with the role the
\* tool names, and nothing else into the update; a processed request for
\* query_credit_limit, get_exchange_rate or calculate_credit_score leaves the
\* update as it was; so a batch of such requests leaves authenticated,
\* client_data, auth_attempts and should_end as they were, and current_agent
\* too when it holds no transfer.
C25_TransferOnlyRole ==
    /\ [][(ProcessedCall /\ PendingCalls[idx].name \in TransferTools) =>
            state_updates' = DictSet(state_updates, "current_agent",
                                     RoleNamedBy(PendingCalls[idx].name))]_vars
    /\ [][(ProcessedCall /\ PendingCalls[idx].name \in NoRuleTools) =>
            state_updates' = state_updates]_vars
    /\ [][(/\ pc = "tools" /\ pc' = "agent"
           /\ \A k \in 1..Len(PendingCalls) :
                 PendingCalls[k].name \in TransferTools \cup NoRuleTools) =>
            /\ UNCHANGED <<authenticated, client_data, auth_attempts, should_end>>
            /\ ((\A k \in 1..Len(PendingCalls) :
                    PendingCalls[k].name \in NoRuleTools) =>
                  UNCHANGED current_agent)]_vars

\* a batch of a query and a transfer, merged: the role changed, the client
\* record, the flag and the counter of the input state are still there
C25_Witness ==
    /\ pc = "agent"
    /\ Len(messages) = 4
    /\ messages[3].name = "query_credit_limit"
    /\ messages[4].name = "transfer_to_credit"
    /\ current_agent = "credit"
    /\ authenticated
    /\ client_data # None
    /\ auth_attempts = 1

-----------------------------------------------------------------------------
\* Entry, the edge after an agent node, the history, the agent step's frame

\* C26: when graph.invoke is given a state, the step it takes first is an
\* agent step, of the agent current_agent names in that state, or of triage
\* when the state has no current_agent; nothing of the state and of
\* tool_node's work has changed by then (no tool step, no other agent ran).
C26_EntryAtCurrentAgent ==
    [][(pc = "start" /\ pc' # "start") =>
          /\ pc' = "agent"
          /\ node' = IF "current_agent" \in DOMAIN fn_in.state
                     THEN fn_in.state.current_agent ELSE "triage"
          /\ UNCHANGED <<state_vars, tool_vars>>]_vars

\* graph.invoke on a state without current_agent went to triage
C26_Witness ==
    /\ fn_in.fn = "graph.invoke"
    /\ "current_agent" \notin DOMAIN fn_in.state
    /\ pc = "agent"
    /\ node = "triage"

\* C27: when an agent step ends, the run is in tool_node exactly when the
\* message the step appended has a tool_calls list with one request or more;
\* otherwise (no tool_calls, or an empty list) graph.invoke returns.
C27_ToolsIffRequests ==
    [][(pc = "agent" /\ messages' # messages) =>
          LET m == messages'[Len(messages')]
              requests == IF "tool_calls" \in DOMAIN m THEN Len(m.tool_calls) ELSE 0
          IN /\ pc' = "tools" <=> requests >= 1
             /\ pc' = "returned" <=> requests = 0]_vars

\* an agent step whose message has no tool_calls ended the turn
C27_Witness ==
    /\ fn_in.fn = "_agent_node"
    /\ pc = "returned"
    /\ Len(messages) = 2
    /\ "tool_calls" \notin DOMAIN messages[2]

\* C28: as long as the conversation is not started over, every step leaves
\* the messages there were in place, as a prefix of the new history (so the
\* state graph.invoke returns extends the one it was given); and every agent
\* step passes the whole history of the state to the model backend.
C28_HistoryAppendOnly ==
    /\ [][WithinConversation =>
            /\ Len(messages') >= Len(messages)
            /\ SubSeq(messages', 1, Len(messages)) = messages]_vars
    /\ [][(pc = "agent" /\ pc' \in {"tools", "returned"}) =>
            llm_input' = messages]_vars

\* a turn of two agent steps around a tool step has returned: the second
\* agent step was given the four messages before its answer
C28_Witness ==
    /\ pc = "returned"
    /\ Len(messages) = 5
    /\ IsToolResult(messages[4])
    /\ llm_input = SubSeq(messages, 1, 4)

\* C29: an agent step, whether the backend answered or raised, appends
\* exactly one message and leaves authenticated, client_data, auth_attempts,
\* current_agent and should_end as they are; within a conversation these five
\* fields change only when tool_node returns.
C29_AgentStepFrame ==
    /\ [][(pc = "agent" /\ pc' \in {"tools", "returned"}) =>
            /\ messages' # messages
            /\ Len(messages') = Len(messages) + 1
            /\ SubSeq(messages', 1, Len(messages)) = messages
            /\ UNCHANGED <<authenticated, client_data, auth_attempts,
                           current_agent, should_end>>]_vars
    /\ [][(/\ WithinConversation
           /\ ~UNCHANGED <<authenticated, client_data, auth_attempts,
                           current_agent, should_end>>) =>
            pc = "tools" /\ pc' = "agent"]_vars

\* the backend raised in the agent step after a failed authentication: the
\* fallback message is the one message added, the counter is still 1
C29_Witness ==
    /\ pc = "returned"
    /\ llm_raised
    /\ auth_attempts = 1
    /\ Len(messages) >= 3
    /\ IsToolResult(messages[Len(messages) - 1])
    /\ LastMessage.content = FALLBACK_TEXT

\* the CPF without dots, dashes and blanks
C30_Cleaned(cpf) == SelectSeq(cpf, LAMBDA c : c \notin {".", "-", " "})

\* the CPF argument is well formed
C30_WellFormed ==
    /\ Len(C30_Cleaned(fn_in.cpf)) = 11
    /\ \A i \in 1..11 : C30_Cleaned(fn_in.cpf)[i] \in Digits

\* some row of the file has the CPF and the birth date of the arguments
C30_SomeRecord ==
    \E i \in 1..Len(fn_in.clients_csv.rows) :
       LET row == fn_in.clients_csv.rows[i]
       IN /\ SelectSeq(row.cpf, LAMBDA c : c \notin {".", "-", " "})
                = C30_Cleaned(fn_in.cpf)
          /\ SelectSeq(row.data_nascimento, LAMBDA c : c # " ")
                = SelectSeq(fn_in.birth_date, LAMBDA c : c # " ")

\* C30: authenticate_client returns a SUCESSO text exactly when the CPF,
\* dots, dashes and blanks removed, is 11 digits and a row of the client file
\* has that CPF and the birth date given; a CPF that is not well formed gives
\* FALHA (whatever the file), a well-formed one gives ERRO_SISTEMA when the
\* file is missing or undecodable and FALHA when the file is read and no row
\* matches.
C30_AuthenticateResult ==
    (fn_in.fn = "authenticate_client" /\ fn_out # <<>>) =>
        /\ StartsWith(fn_out, "SUCESSO") <=> (C30_WellFormed /\ C30_SomeRecord)
        /\ ~C30_WellFormed => StartsWith(fn_out, "FALHA")
        /\ (C30_WellFormed /\ fn_in.clients_csv.status = "ok" /\ ~C30_SomeRecord)
              => StartsWith(fn_out, "FALHA")
        /\ (C30_WellFormed /\ fn_in.clients_csv.status # "ok")
              => StartsWith(fn_out, "ERRO_SISTEMA")

\* a CPF written with blanks authenticated against a row with a formatted CPF
C30_Witness ==
    /\ fn_in.fn = "authenticate_client"
    /\ fn_out # <<>>
    /\ StartsWith(fn_out, "SUCESSO")
    /\ \E i \in 1..Len(fn_in.cpf) : fn_in.cpf[i] = " "
    /\ \E i \in 1..Len(fn_in.clients_csv.rows[1].cpf) :
          fn_in.clients_csv.rows[1].cpf[i] = "."

-----------------------------------------------------------------------------
\* Authentication and the client record (Spec)

\* C33: in every state of a conversation that started fresh, authenticated
\* is true exactly when client_data is present: the successful
\* authenticate_client result writes both in one tool step, and a score or
\* limit update requested while the state has no client record writes none.
C33_AuthenticatedIffClientData ==
    /\ authenticated <=> client_data # None
    /\ (pc = "tools" /\ client_data = None
           /\ "client_data" \in DOMAIN state_updates) =>
          /\ "authenticated" \in DOMAIN state_updates
          /\ state_updates.authenticated

\* a score update and a limit increase were requested, and answered
\* ATUALIZADO and APROVADO, while the state had no client record: there is
\* still none
C33_Witness ==
    /\ pc = "agent"
    /\ Len(messages) = 3
    /\ IsToolResult(messages[2])
    /\ messages[2].name = "update_client_score"
    /\ StartsWith(messages[2].content, "ATUALIZADO")
    /\ IsToolResult(messages[3])
    /\ messages[3].name = "request_limit_increase"
    /\ StartsWith(messages[3].content, "APROVADO")
    /\ ~authenticated
    /\ client_data = None

\* C34: in every state reachable from a fresh conversation, whenever
\* current_agent is credit, interview or exchange, authenticated is true.
\* The transfer branch of tool_node does not test authenticated, so a first
\* answer that requests transfer_to_credit breaks it.
C34_ServiceAgentOnlyAuthenticated ==
    current_agent \in {"credit", "interview", "exchange"} => authenticated

-----------------------------------------------------------------------------
\* Unknown tools and raising tools (SpecRegistry, SpecRules)

\* C35: a request whose name is not in the registry gets the
\* unavailable-tool text and leaves the step's update as it was, also when
\* the name is one a state-delta rule tests for (end_conversation,
\* authenticate_client, a key of TRANSFER_MAP); a batch of such requests
\* only leaves authenticated, client_data, auth_attempts, current_agent and
\* should_end as they were.
C35_UnknownToolNoDelta ==
    /\ [][(ProcessedCall /\ PendingCalls[idx].name \notin DOMAIN registry) =>
            /\ ResultText = UnknownToolText(PendingCalls[idx].name)
            /\ state_updates' = state_updates]_vars
    /\ [][(/\ pc = "tools" /\ pc' = "agent"
           /\ \A k \in 1..Len(PendingCalls) :
                 PendingCalls[k].name \notin DOMAIN registry) =>
            UNCHANGED <<authenticated, client_data, auth_attempts,
                        current_agent, should_end>>]_vars

\* end_conversation and transfer_to_credit were requested while neither was
\* registered: the conversation has not ended and is still with interview
C35_Witness ==
    /\ pc = "agent"
    /\ "end_conversation" \notin DOMAIN registry
    /\ "transfer_to_credit" \notin DOMAIN registry
    /\ Len(messages) = 4
    /\ messages[3].name = "end_conversation"
    /\ messages[3].content = UnknownToolText("end_conversation")
    /\ messages[4].name = "transfer_to_credit"
    /\ messages[4].content = UnknownToolText("transfer_to_credit")
    /\ ~should_end
    /\ current_agent = "interview"

\* C36: when tool.invoke of a registered tool raises, the result recorded is
\* the ERRO_SISTEMA text and the rule of the tool's name is applied to it: a
\* raising end_conversation sets should_end in the update, a raising
\* transfer tool sets current_agent to the role it names, and a raising
\* authenticate_client, update_client_score, request_limit_increase (or a
\* tool without a rule) leaves the update as it was.
C36_RuleAppliedToErrorResult ==
    [][(ProcessedCall /\ PendingCalls[idx].name \in DOMAIN registry
           /\ tool_raised'[idx]) =>
          /\ ResultText = ERRO_SISTEMA
          /\ state_updates' =
                IF PendingCalls[idx].name = "end_conversation"
                THEN DictSet(state_updates, "should_end", TRUE)
                ELSE IF PendingCalls[idx].name \in TransferTools
                THEN DictSet(state_updates, "current_agent",
                             RoleNamedBy(PendingCalls[idx].name))
                ELSE state_updates]_vars

\* end_conversation and authenticate_client both raised: the conversation
\* is marked as ended, nobody is authenticated and no attempt was counted
C36_Witness ==
    /\ pc = "agent"
    /\ Len(messages) = 4
    /\ messages[3].name = "end_conversation"
    /\ messages[3].content = ERRO_SISTEMA
    /\ messages[4].name = "authenticate_client"
    /\ messages[4].content = ERRO_SISTEMA
    /\ should_end
    /\ ~authenticated
    /\ client_data = None
    /\ auth_attempts = 1

-----------------------------------------------------------------------------
\* request_limit_increase and the files (SpecCredit)

\* the last step was a call of request_limit_increase
CalledLimitIncrease == fn_in # None /\ fn_in.fn = "request_limit_increase"

\* the prefix of the text it returned
ResultPrefix == fn_out[1][1]

OnlyDigits(str) == SelectSeq(str, LAMBDA c : c \in Digits)

\* the position, in the client file as it was before the call, of the first
\* row that has the digits of the CPF argument; 0 when there is none
CalledClient ==
    LET hits == {i \in 1..Len(fn_in.files.clientes.rows) :
                    OnlyDigits(fn_in.files.clientes.rows[i].cpf)
                        = OnlyDigits(fn_in.cpf)}
    IN IF hits = {} THEN 0 ELSE CHOOSE i \in hits : \A j \in hits : i <= j

\* the limit row i stored before the call, and stores after it (-1 when the
\* file has no row i any more)
StoredBefore(i) == FloatOfText(fn_in.files.clientes.rows[i].limite_credito)

StoredAfter(i) ==
    IF i \in DOMAIN clientes_csv.rows
    THEN FloatOfText(clientes_csv.rows[i].limite_credito)
    ELSE -1

\* the maximum limit of the band of a score in the band file of the
\* fixture; -1 when the score is in no band
BandMax(score) ==
    IF score \in 0..399 THEN 2000000
    ELSE IF score \in 400..549 THEN 3500000
    ELSE IF score \in 550..649 THEN 5000000
    ELSE IF score \in 650..749 THEN 8000000
    ELSE IF score \in 750..849 THEN 12000000
    ELSE IF score \in 850..1000 THEN 20000000
    ELSE -1

CalledBandMax ==
    BandMax(IntOfText(fn_in.files.clientes.rows[CalledClient].score))

\* both files read are readable and the request log can be written
FilesWork ==
    /\ fn_in.files.clientes.status = "ok"
    /\ fn_in.files.score_limite.status = "ok"
    /\ fn_in.io.log

\* C31 as stated, for calls during which the files work: an unknown CPF
\* gives ERRO, a client whose score is in no band ERRO_SISTEMA, and a client
\* with a band INFORMACAO, APROVADO or REJEITADO by the place of new_limit.
C31_DecisionTable ==
    (CalledLimitIncrease /\ FilesWork) =>
        IF CalledClient = 0 THEN ResultPrefix = "ERRO"
        ELSE IF CalledBandMax < 0 THEN ResultPrefix = "ERRO_SISTEMA"
        ELSE IF fn_in.new_limit <= StoredBefore(CalledClient)
        THEN ResultPrefix = "INFORMACAO"
        ELSE IF fn_in.new_limit <= CalledBandMax
        THEN ResultPrefix = "APROVADO"
        ELSE ResultPrefix = "REJEITADO"

\* C31: the answer follows the order of the function's tests.  A client
\* file that cannot be read gives ERRO_SISTEMA; an unknown CPF gives ERRO; an
\* existing client with current limit c gets INFORMACAO when new_limit <= c,
\* whether or not the score is in a band; when new_limit > c, a band file
\* that cannot be read or a score in no band gives ERRO_SISTEMA; with a band
\* of maximum m a request log that cannot be written gives ERRO_SISTEMA, and
\* otherwise the answer is APROVADO when new_limit <= m and REJEITADO when
\* new_limit > m.
C31_DecisionTableInOrder ==
    CalledLimitIncrease =>
        IF fn_in.files.clientes.status # "ok"
        THEN ResultPrefix = "ERRO_SISTEMA"
        ELSE IF CalledClient = 0 THEN ResultPrefix = "ERRO"
        ELSE IF fn_in.new_limit <= StoredBefore(CalledClient)
        THEN ResultPrefix = "INFORMACAO"
        ELSE IF fn_in.files.score_limite.status # "ok" \/ CalledBandMax < 0
        THEN ResultPrefix = "ERRO_SISTEMA"
        ELSE IF ~fn_in.io.log THEN ResultPrefix = "ERRO_SISTEMA"
        ELSE IF fn_in.new_limit <= CalledBandMax
        THEN ResultPrefix = "APROVADO"
        ELSE ResultPrefix = "REJEITADO"

\* the client whose score is in no band asked for the limit he has and was
\* answered INFORMACAO
C31_Witness ==
    /\ CalledLimitIncrease
    /\ FilesWork
    /\ fn_in.cpf = CPF_CARLOS
    /\ CalledBandMax < 0
    /\ fn_in.new_limit = StoredBefore(CalledClient)
    /\ ResultPrefix = "INFORMACAO"

\* the client file after the call has the rows it had before, but for the
\* limit of row i
SameRowsButLimit(i) ==
    /\ clientes_csv.status = fn_in.files.clientes.status
    /\ Len(clientes_csv.rows) = Len(fn_in.files.clientes.rows)
    /\ \A k \in 1..Len(clientes_csv.rows) :
          IF k = i
          THEN \A f \in DOMAIN clientes_csv.rows[k] \ {"limite_credito"} :
                  clientes_csv.rows[k][f] = fn_in.files.clientes.rows[k][f]
          ELSE clientes_csv.rows[k] = fn_in.files.clientes.rows[k]

\* C32 as stated: a call answered APROVADO or REJEITADO has appended one
\* record to the request log (the CPF's digits, the limit before, new_limit,
\* the decision) and a call answered anything else has appended none; the
\* client file is what it was unless the answer is APROVADO and the file
\* opened for writing, and then it differs only in the limit of the call's
\* client, which is new_limit written with two decimals; when the log cannot
\* be written the answer is never APROVADO or REJEITADO (it is ERRO_SISTEMA
\* for a request that got as far as the log) and both files are what they
\* were.
C32_LogAndClientFileEffects ==
    CalledLimitIncrease =>
        /\ solicitacoes_csv =
              IF ResultPrefix \in {"APROVADO", "REJEITADO"}
              THEN Append(fn_in.files.solicitacoes,
                          [cpf_cliente |-> OnlyDigits(fn_in.cpf),
                           limite_atual |-> StoredBefore(CalledClient),
                           novo_limite_solicitado |-> fn_in.new_limit,
                           status_pedido |->
                               IF ResultPrefix = "APROVADO" THEN "aprovado"
                               ELSE "rejeitado"])
              ELSE fn_in.files.solicitacoes
        /\ IF ResultPrefix = "APROVADO" /\ fn_in.io.write # "open_fails"
           THEN /\ SameRowsButLimit(CalledClient)
                /\ clientes_csv.rows[CalledClient].limite_credito
                      = Fmt2f(fn_in.new_limit)
           ELSE clientes_csv = fn_in.files.clientes
        /\ ~fn_in.io.log =>
              /\ ResultPrefix \notin {"APROVADO", "REJEITADO"}
              /\ clientes_csv = fn_in.files.clientes
              /\ solicitacoes_csv = fn_in.files.solicitacoes
              /\ (/\ fn_in.files.clientes.status = "ok"
                  /\ fn_in.files.score_limite.status = "ok"
                  /\ CalledClient # 0
                  /\ fn_in.new_limit > StoredBefore(CalledClient)) =>
                    ResultPrefix = "ERRO_SISTEMA"

\* the position, in the client file after the call, of the row of the
\* client the call was for
CalledClientNow ==
    LET hits == {i \in 1..Len(clientes_csv'.rows) :
                    OnlyDigits(clientes_csv'.rows[i].cpf)
                        = OnlyDigits(PendingCalls[idx].args.cpf)}
    IN IF hits = {} THEN 0 ELSE CHOOSE i \in hits : \A j \in hits : i <= j

\* C37 as stated: whenever a processed request_limit_increase request writes
\* a client_data delta, the limit it writes is the limit that the client
\* file stores for the call's client once the call is over.
C37_StateLimitIsStoredLimit ==
    [][(/\ ProcessedCall
        /\ PendingCalls[idx].name = "request_limit_increase"
        /\ state_updates' # state_updates) =>
          /\ CalledClientNow # 0
          /\ state_updates'.client_data.limite_credito
                = FloatOfText(clientes_csv'.rows[CalledClientNow].limite_credito)]_vars

\* the limit row i stores is not below the one it stored before the call
NotLowered(i) == StoredAfter(i) >= StoredBefore(i)

\* C40 as stated: no call lowers a stored limit, and after a call answered
\* APROVADO the client's stored limit is above the one stored before and not
\* above the maximum of the client's band.
C40_RaisedByEveryApproval ==
    (CalledLimitIncrease /\ fn_in.files.clientes.status = "ok") =>
        /\ \A i \in 1..Len(clientes_csv.rows) : NotLowered(i)
        /\ ResultPrefix = "APROVADO" =>
              /\ StoredAfter(CalledClient) > StoredBefore(CalledClient)
              /\ StoredAfter(CalledClient) <= CalledBandMax

\* row i of the client file before the call is no longer in the file
RecordLost(i) == i \notin DOMAIN clientes_csv.rows

\* C40: no call replaces a stored limit by a smaller one: every record of
\* the file before the call is in the file after it with a limit that is not
\* lower, or is lost, which happens only in a call answered APROVADO whose
\* writing failed once the file was open (the file then holds the rows
\* written before the failure, fewer than before, and the client's record
\* is lost or holds new_limit rounded to the cent).  After a call answered
\* APROVADO whose rewrite completed, the client's stored limit is new_limit
\* rounded to the cent: not below the limit stored before, above it when
\* new_limit exceeds it by a cent or more, and not above the maximum of the
\* client's band.  After a call answered APROVADO whose client file did not
\* open for writing, the stored limit is the one stored before.
C40_NeverLoweredRaisedWhenWritten ==
    (CalledLimitIncrease /\ fn_in.files.clientes.status = "ok") =>
        /\ \A i \in 1..Len(fn_in.files.clientes.rows) :
              IF RecordLost(i)
              THEN ResultPrefix = "APROVADO" /\ fn_in.io.write = "write_fails"
              ELSE NotLowered(i)
        /\ (ResultPrefix = "APROVADO" /\ fn_in.io.write = "ok") =>
              /\ StoredAfter(CalledClient)
                    = ((fn_in.new_limit + 5) \div 10) * 10
              /\ StoredAfter(CalledClient) >= StoredBefore(CalledClient)
              /\ (fn_in.new_limit >= StoredBefore(CalledClient) + 10 =>
                    StoredAfter(CalledClient) > StoredBefore(CalledClient))
              /\ StoredAfter(CalledClient) <= CalledBandMax
        /\ (ResultPrefix = "APROVADO" /\ fn_in.io.write = "open_fails") =>
              StoredAfter(CalledClient) = StoredBefore(CalledClient)
        /\ (ResultPrefix = "APROVADO" /\ fn_in.io.write = "write_fails") =>
              /\ Len(clientes_csv.rows) < Len(fn_in.files.clientes.rows)
              /\ \/ RecordLost(CalledClient)
                 \/ StoredAfter(CalledClient)
                       = ((fn_in.new_limit + 5) \div 10) * 10

\* the second of two approvals in a row for the first client: the first, of
\* a hair above the limit, left 5000.00 in the file, the second raised it to
\* the maximum of the band
C40_Witness ==
    /\ CalledLimitIncrease
    /\ ResultPrefix = "APROVADO"
    /\ fn_in.io.write = "ok"
    /\ fn_in.cpf = CPF_FORMATTED
    /\ Len(solicitacoes_csv) = 2
    /\ solicitacoes_csv[1].status_pedido = "aprovado"
    /\ solicitacoes_csv[1].novo_limite_solicitado = 5000004
    /\ StoredBefore(CalledClient) = 5000000
    /\ StoredAfter(CalledClient) = 8000000
    /\ CalledBandMax = 8000000

\* conversation s was answered that its increase is approved, its rewrite of
\* the client file having succeeded
ApprovedAndWritten(s) ==
    /\ inflight[s].pc = "done"
    /\ inflight[s].d.status = "aprovado"
    /\ inflight[s].result = _decided_text(inflight[s].d, TRUE)

\* what a call gets that reads the client file with no other call at work
\* on it
ReadAlone(bytes) ==
    LET first == ReadBytes(DictReader("first"), bytes)
        second == ReadBytes(first, bytes)
        third == ReadBytes(second, bytes)
    IN IF first.pos \in {"done", "error"} THEN first
       ELSE IF second.pos \in {"done", "error"} THEN second
       ELSE third

\* the limit the client file holds for the client of conversation s's call,
\* "" if it holds none
LimitInFile(s) ==
    LET rows == ReadAlone(clientes_csv.bytes).rows
        i == _find_client_dict(rows, _normalize_cpf(inflight[s].cpf), 1)
    IN IF i > 0 /\ HasText(rows[i], Chars("limite_credito"))
       THEN Join(TextOf(rows[i], Chars("limite_credito")))
       ELSE ""

\* C38 as stated: once two conversations' approved increases for two
\* different clients have both been written, the client file holds both new
\* limits, however the calls' accesses to the files were interleaved.
C38_NoLostUpdate ==
    \A s, t \in Sessions :
        (/\ s # t
         /\ ApprovedAndWritten(s)
         /\ ApprovedAndWritten(t)
         /\ _normalize_cpf(inflight[s].cpf) # _normalize_cpf(inflight[t].cpf)) =>
            /\ LimitInFile(s) = Fmt2f(inflight[s].new_limit)
            /\ LimitInFile(t) = Fmt2f(inflight[t].new_limit)

-----------------------------------------------------------------------------
\* The transfer topology (Spec)

\* the agents whose tool subsets are in agents/triage.py, agents/credit.py
\* and agents/exchange.py
DeclaredAgents == {"triage", "credit", "exchange"}

\* the moves those subsets allow
Topology ==
    {<<"triage", "credit">>, <<"triage", "exchange">>,
     <<"credit", "interview">>, <<"credit", "triage">>,
     <<"exchange", "triage">>}

====
